---- MODULE Spec2Model ----
(***************************************************************************)
(* podtrace: the in-kernel correlation and decoding layer (src/bpf).      *)
(*                                                                         *)
(* The BPF maps of maps.h are the fields of the record `maps`.  Every     *)
(* probe program is an operator  handler(m, c)  that maps the maps before *)
(* the invocation to the maps after it; c is the invocation's context:    *)
(* the current task, the clock, the probed call's argument and return     *)
(* value, and the outcome of the kernel helpers the program calls.        *)
(* A C string is the sequence of its characters before the NUL.           *)
(***************************************************************************)
EXTENDS Integers, Sequences, FiniteSets, TLC

VARIABLES
    maps,       \* the BPF maps (maps.h) and the records accepted by the ring buffer
    now,        \* bpf_ktime_get_ns()
    calls,      \* per thread: the instrumented calls in flight, innermost last
    workload,   \* the instrumented functions the traced application calls
    last,       \* the latest probe invocation: which probe, on which thread,
                \* what it found and what its helpers returned
    pool_stats, \* per thread: what the pool engine has done for its key so far
    scratch     \* the records of event_buf and stack_buf, who wrote each field
                \* last, and where the probe running on each CPU stands

vars == <<maps, now, calls, workload, last, pool_stats, scratch>>

----------------------------------------------------------------------------
\* Bounds of the model.

NumThreads == 2
KeyShift == 4
TickNs == 1000000
MaxTicks == 1
PoolTickNs == 10000000
MaxPoolTicks == 2
MaxPoolAcquires == 2
U64Bits == 17
NumCPUs == 2
NumCgroups == 2
SchedTickNs == 500000
MaxSchedTicks == 3
FcgiTickNs == 1000
MaxFcgiTicks == 1
MaxGrpcTicks == 1
MaxConnectTicks == 1
MaxClockTicks == 2
MaxFcgiRequestId == 2
MaxStackNs == 2

\* Program constants (common.h, maps.h).

MAX_STRING_LEN == 128
MAX_STACK_DEPTH == 64
NS_PER_MS == 1000000
MAX_BYTES_THRESHOLD == 10485760
MIN_LATENCY_NS == 1000000
MAX_ENTRIES == 1024
STACK_TRACES_MAX_ENTRIES == 2048
KAFKA_MAX_ENTRIES == 256

U64Max == (2 ^ U64Bits) - 1
Threads == 1 .. NumThreads
Pid(t) == 1
Tid(t) == t

Min(a, b) == IF a < b THEN a ELSE b

RECURSIVE XOR(_, _)
XOR(a, b) ==
    IF a = 0 THEN b
    ELSE IF b = 0 THEN a
    ELSE 2 * XOR(a \div 2, b \div 2) + ((a + b) % 2)

----------------------------------------------------------------------------
\* BPF hash maps: partial functions with a capacity.

EmptyMap == [k \in {} |-> 0]

Has(map, k) == k \in DOMAIN map

bpf_map_update_elem(map, k, v, max_entries) ==
    IF k \in DOMAIN map \/ Cardinality(DOMAIN map) < max_entries
    THEN [x \in (DOMAIN map) \cup {k} |-> IF x = k THEN v ELSE map[x]]
    ELSE map

bpf_map_delete_elem(map, k) == [x \in (DOMAIN map) \ {k} |-> map[x]]

\* bpf_probe_read_{user,kernel}_str(dst, size, src): at most size-1 characters.
bpf_probe_read_str(src, size) == SubSeq(src, 1, Min(Len(src), size - 1))

----------------------------------------------------------------------------
\* helpers.h

get_key(pid, tid) == pid * (2 ^ KeyShift) + tid

\* The mutation of calc_latency that subtracts without the comparison.
calc_latency_unclamped(start, t) == (t - start) % (2 ^ U64Bits)

calc_latency(start, t) == IF t > start THEN t - start ELSE 0

build_stack_key(pid, tid, timestamp) == XOR(get_key(pid, tid), timestamp)

ZeroEvent ==
    [timestamp |-> 0, pid |-> 0, type |-> "EVENT_DNS", latency_ns |-> 0,
     error |-> 0, bytes |-> 0, tcp_state |-> 0, stack_key |-> 0,
     target |-> <<>>, details |-> <<>>]

\* get_event_buf returns the zeroed scratch record, or NULL when the lookup fails.
get_event_buf(c) == c.e_ok

capture_user_stack(m, c, pid, tid, e) ==
    IF ~c.sbuf_ok THEN [m |-> m, e |-> [e EXCEPT !.stack_key = 0]]
    ELSE IF c.stack_sz <= 0 THEN [m |-> m, e |-> [e EXCEPT !.stack_key = 0]]
    ELSE LET nr == Min(c.stack_sz \div 8, MAX_STACK_DEPTH)
             key == build_stack_key(pid, tid, e.timestamp)
         IN [m |-> [m EXCEPT !.stack_traces =
                        bpf_map_update_elem(@, key, nr, STACK_TRACES_MAX_ENTRIES)],
             e |-> [e EXCEPT !.stack_key = key]]

bpf_ringbuf_output(m, c, e) ==
    IF c.ring_ok THEN [m EXCEPT !.events = Append(@, e)] ELSE m

\* capture_user_stack(ctx, pid, tid, e); bpf_ringbuf_output(&events, e, ...)
submit(m, c, pid, tid, e) ==
    LET cs == capture_user_stack(m, c, pid, tid, e)
    IN bpf_ringbuf_output(cs.m, c, cs.e)

Digit(n) == <<"0", "1", "2", "3", "4", "5", "6", "7", "8", "9">>[n + 1]

bswap16(x) == (x % 256) * 256 + (x \div 256)

bswap32(x) ==
    (x % 256) * 16777216 + ((x \div 256) % 256) * 65536
        + ((x \div 65536) % 256) * 256 + (x \div 16777216)

format_ip_port(ip, port) ==
    LET a == (ip \div 16777216) % 256
        b == (ip \div 65536) % 256
        cc == (ip \div 256) % 256
        d == ip % 256
        Oct(o) == <<Digit((o \div 100) % 10), Digit((o \div 10) % 10), Digit(o % 10)>>
    IN Oct(a) \o <<".">> \o Oct(b) \o <<".">> \o Oct(cc) \o <<".">> \o Oct(d) \o <<":">>
         \o <<Digit((port \div 10000) % 10), Digit((port \div 1000) % 10),
              Digit((port \div 100) % 10), Digit((port \div 10) % 10), Digit(port % 10)>>

----------------------------------------------------------------------------
\* network.c

kprobe_tcp_connect(m, c) ==
    LET key == get_key(c.pid, c.tid)
    IN [m EXCEPT !.start_times = bpf_map_update_elem(@, key, c.now, MAX_ENTRIES)]

kretprobe_tcp_connect(m, c) ==
    LET key == get_key(c.pid, c.tid) IN
    IF ~Has(m.start_times, key) THEN m
    ELSE IF ~get_event_buf(c)
    THEN [m EXCEPT !.start_times = bpf_map_delete_elem(@, key)]
    ELSE
      LET addr == c.arg
          target ==
              IF c.has_arg /\ addr.read_ok /\ addr.sin_family = 2 /\ addr.read2_ok
              THEN format_ip_port(bswap32(addr.s_addr), bswap16(addr.sin_port))
              ELSE <<>>
          e == [ZeroEvent EXCEPT !.timestamp = c.now, !.pid = c.pid,
                    !.type = "EVENT_CONNECT",
                    !.latency_ns = calc_latency(m.start_times[key], c.now),
                    !.error = c.rc, !.bytes = 0, !.tcp_state = 0,
                    !.target = target]
          m1 == submit(m, c, c.pid, c.tid, e)
      IN [m1 EXCEPT !.start_times = bpf_map_delete_elem(@, key)]

kprobe_tcp_sendmsg(m, c) ==
    LET key == get_key(c.pid, c.tid)
    IN [m EXCEPT !.start_times = bpf_map_update_elem(@, key, c.now, MAX_ENTRIES)]

\* The body shared, up to the event type, by kretprobe_tcp_sendmsg and
\* kretprobe_tcp_recvmsg.
tcp_msg_ret(m, c, type) ==
    LET key == get_key(c.pid, c.tid) IN
    IF ~Has(m.start_times, key) THEN m
    ELSE
      LET ret == c.rc
          bytes == IF ret > 0 /\ ret < 10 * 1024 * 1024 THEN ret ELSE 0
      IN
      IF ~get_event_buf(c) THEN m
      ELSE
        LET conn == Has(m.socket_conns, key)
            e == [ZeroEvent EXCEPT !.timestamp = c.now, !.pid = c.pid,
                      !.type = type,
                      !.latency_ns = calc_latency(m.start_times[key], c.now),
                      !.error = IF ret < 0 THEN ret ELSE 0,
                      !.bytes = bytes, !.tcp_state = 0,
                      !.target = IF conn
                                 THEN bpf_probe_read_str(m.socket_conns[key], MAX_STRING_LEN)
                                 ELSE <<>>]
            m1 == IF conn
                  THEN [m EXCEPT !.socket_conns = bpf_map_delete_elem(@, key)]
                  ELSE m
            m2 == submit(m1, c, c.pid, c.tid, e)
        IN [m2 EXCEPT !.start_times = bpf_map_delete_elem(@, key)]

kretprobe_tcp_sendmsg(m, c) == tcp_msg_ret(m, c, "EVENT_TCP_SEND")

kprobe_tcp_recvmsg(m, c) ==
    LET key == get_key(c.pid, c.tid)
    IN [m EXCEPT !.start_times = bpf_map_update_elem(@, key, c.now, MAX_ENTRIES)]

kretprobe_tcp_recvmsg(m, c) == tcp_msg_ret(m, c, "EVENT_TCP_RECV")

uprobe_getaddrinfo(m, c) ==
    LET key == get_key(c.pid, c.tid)
        m1 == [m EXCEPT !.start_times = bpf_map_update_elem(@, key, c.now, MAX_ENTRIES)]
    IN IF c.has_arg
       THEN [m1 EXCEPT !.dns_targets =
                bpf_map_update_elem(@, key, bpf_probe_read_str(c.arg, MAX_STRING_LEN),
                                    MAX_ENTRIES)]
       ELSE m1

uretprobe_getaddrinfo(m, c) ==
    LET key == get_key(c.pid, c.tid) IN
    IF ~Has(m.start_times, key) THEN m
    ELSE
      LET latency == calc_latency(m.start_times[key], c.now) IN
      IF ~get_event_buf(c) THEN m
      ELSE
        LET tgt == Has(m.dns_targets, key)
            e == [ZeroEvent EXCEPT !.timestamp = c.now, !.pid = c.pid,
                      !.type = "EVENT_DNS", !.latency_ns = latency,
                      !.bytes = 0, !.tcp_state = 0,
                      !.error = IF c.rc = 0 THEN 0 ELSE c.rc,
                      !.target = IF tgt
                                 THEN bpf_probe_read_str(m.dns_targets[key], MAX_STRING_LEN)
                                 ELSE <<>>]
            m1 == IF tgt
                  THEN [m EXCEPT !.dns_targets = bpf_map_delete_elem(@, key)]
                  ELSE m
            m2 == submit(m1, c, c.pid, c.tid, e)
        IN [m2 EXCEPT !.start_times = bpf_map_delete_elem(@, key)]

kprobe_udp_sendmsg(m, c) ==
    LET key == get_key(c.pid, c.tid)
    IN [m EXCEPT !.start_times = bpf_map_update_elem(@, key, c.now, MAX_ENTRIES)]

\* The body shared, up to the event type, by kretprobe_udp_sendmsg and
\* kretprobe_udp_recvmsg.
udp_msg_ret(m, c, type) ==
    LET key == get_key(c.pid, c.tid) IN
    IF ~Has(m.start_times, key) THEN m
    ELSE
      LET ret == c.rc
          bytes == IF ret > 0 /\ ret < 10 * 1024 * 1024 THEN ret ELSE 0
      IN
      IF ~get_event_buf(c) THEN m
      ELSE
        LET e == [ZeroEvent EXCEPT !.timestamp = c.now, !.pid = c.pid,
                      !.type = type,
                      !.latency_ns = calc_latency(m.start_times[key], c.now),
                      !.error = IF ret < 0 THEN ret ELSE 0,
                      !.bytes = bytes, !.tcp_state = 0, !.target = <<>>]
            m1 == submit(m, c, c.pid, c.tid, e)
        IN [m1 EXCEPT !.start_times = bpf_map_delete_elem(@, key)]

kretprobe_udp_sendmsg(m, c) == udp_msg_ret(m, c, "EVENT_UDP_SEND")

kprobe_udp_recvmsg(m, c) ==
    LET key == get_key(c.pid, c.tid)
    IN [m EXCEPT !.start_times = bpf_map_update_elem(@, key, c.now, MAX_ENTRIES)]

kretprobe_udp_recvmsg(m, c) == udp_msg_ret(m, c, "EVENT_UDP_RECV")

kprobe_tcp_v6_connect(m, c) ==
    LET key == get_key(c.pid, c.tid)
    IN [m EXCEPT !.start_times = bpf_map_update_elem(@, key, c.now, MAX_ENTRIES)]

kretprobe_tcp_v6_connect(m, c) ==
    LET key == get_key(c.pid, c.tid) IN
    IF ~Has(m.start_times, key) THEN m
    ELSE IF ~get_event_buf(c)
    THEN [m EXCEPT !.start_times = bpf_map_delete_elem(@, key)]
    ELSE
      LET addr == c.arg
          port == bswap16(addr.sin_port)
          target ==
              IF c.has_arg /\ addr.read_ok /\ addr.sin_family = 10
              THEN <<"[", "I", "P", "v", "6", "]", ":">>
                     \o (IF port >= 10000 THEN <<Digit((port \div 10000) % 10)>> ELSE <<>>)
                     \o (IF port >= 1000 THEN <<Digit((port \div 1000) % 10)>> ELSE <<>>)
                     \o (IF port >= 100 THEN <<Digit((port \div 100) % 10)>> ELSE <<>>)
                     \o (IF port >= 10 THEN <<Digit((port \div 10) % 10)>> ELSE <<>>)
                     \o <<Digit(port % 10)>>
              ELSE <<>>
          e == [ZeroEvent EXCEPT !.timestamp = c.now, !.pid = c.pid,
                    !.type = "EVENT_CONNECT",
                    !.latency_ns = calc_latency(m.start_times[key], c.now),
                    !.error = c.rc, !.bytes = 0, !.tcp_state = 0,
                    !.target = target]
          m1 == submit(m, c, c.pid, c.tid, e)
      IN [m1 EXCEPT !.start_times = bpf_map_delete_elem(@, key)]

uprobe_http_request(m, c) ==
    LET key == get_key(c.pid, c.tid)
        m1 == [m EXCEPT !.start_times = bpf_map_update_elem(@, key, c.now, MAX_ENTRIES)]
    IN IF c.has_arg
       THEN [m1 EXCEPT !.socket_conns =
                bpf_map_update_elem(@, key, bpf_probe_read_str(c.arg, MAX_STRING_LEN),
                                    MAX_ENTRIES)]
       ELSE m1

uretprobe_http_request(m, c) ==
    LET key == get_key(c.pid, c.tid) IN
    IF ~Has(m.start_times, key) THEN m
    ELSE IF ~get_event_buf(c) THEN m
    ELSE
      LET url == Has(m.socket_conns, key)
          e == [ZeroEvent EXCEPT !.timestamp = c.now, !.pid = c.pid,
                    !.type = "EVENT_HTTP_REQ",
                    !.latency_ns = calc_latency(m.start_times[key], c.now),
                    !.error = 0, !.bytes = 0, !.tcp_state = 0,
                    !.target = IF url
                               THEN bpf_probe_read_str(m.socket_conns[key], MAX_STRING_LEN)
                               ELSE <<>>]
          m1 == IF url
                THEN [m EXCEPT !.socket_conns = bpf_map_delete_elem(@, key)]
                ELSE m
          m2 == submit(m1, c, c.pid, c.tid, e)
      IN [m2 EXCEPT !.start_times = bpf_map_delete_elem(@, key)]

uprobe_http_response(m, c) ==
    LET key == get_key(c.pid, c.tid)
    IN [m EXCEPT !.start_times = bpf_map_update_elem(@, key, c.now, MAX_ENTRIES)]

uretprobe_http_response(m, c) ==
    LET key == get_key(c.pid, c.tid) IN
    IF ~Has(m.start_times, key) THEN m
    ELSE
      LET ret == c.rc
          bytes == IF ret > 0 /\ ret < 10 * 1024 * 1024 THEN ret ELSE 0
      IN
      IF ~get_event_buf(c) THEN m
      ELSE
        LET e == [ZeroEvent EXCEPT !.timestamp = c.now, !.pid = c.pid,
                      !.type = "EVENT_HTTP_RESP",
                      !.latency_ns = calc_latency(m.start_times[key], c.now),
                      !.error = IF ret < 0 THEN ret ELSE 0,
                      !.bytes = bytes, !.tcp_state = 0, !.target = <<>>]
            m1 == submit(m, c, c.pid, c.tid, e)
        IN [m1 EXCEPT !.start_times = bpf_map_delete_elem(@, key)]

\* The loop of uprobe_PQexec and uprobe_mysql_real_query that cuts the query
\* at its first blank, newline, tab or NUL.
RECURSIVE first_word(_)
first_word(buf) ==
    IF buf = <<>> \/ Head(buf) \in {" ", "\n", "\t"}
    THEN <<>>
    ELSE <<Head(buf)>> \o first_word(Tail(buf))

\* The body shared by uprobe_PQexec and uprobe_mysql_real_query.
db_query_enter(m, c) ==
    LET key == get_key(c.pid, c.tid)
        m1 == [m EXCEPT !.start_times = bpf_map_update_elem(@, key, c.now, MAX_ENTRIES)]
    IN IF c.has_arg
       THEN [m1 EXCEPT !.db_queries =
                bpf_map_update_elem(@, key,
                    first_word(bpf_probe_read_str(c.arg, MAX_STRING_LEN)), MAX_ENTRIES)]
       ELSE m1

\* The body shared by uretprobe_PQexec and uretprobe_mysql_real_query.
db_query_ret(m, c) ==
    LET key == get_key(c.pid, c.tid) IN
    IF ~Has(m.start_times, key) THEN m
    ELSE
      LET latency == calc_latency(m.start_times[key], c.now) IN
      IF ~get_event_buf(c) THEN m
      ELSE
        LET q == Has(m.db_queries, key)
            e == [ZeroEvent EXCEPT !.timestamp = c.now, !.pid = c.pid,
                      !.type = "EVENT_DB_QUERY", !.latency_ns = latency,
                      !.error = c.rc, !.bytes = 0, !.tcp_state = 0,
                      !.target = IF q
                                 THEN bpf_probe_read_str(m.db_queries[key], MAX_STRING_LEN)
                                 ELSE <<>>]
            m1 == IF q
                  THEN [m EXCEPT !.db_queries = bpf_map_delete_elem(@, key)]
                  ELSE m
            m2 == submit(m1, c, c.pid, c.tid, e)
        IN [m2 EXCEPT !.start_times = bpf_map_delete_elem(@, key)]

uprobe_PQexec(m, c) == db_query_enter(m, c)
uretprobe_PQexec(m, c) == db_query_ret(m, c)
uprobe_mysql_real_query(m, c) == db_query_enter(m, c)
uretprobe_mysql_real_query(m, c) == db_query_ret(m, c)

----------------------------------------------------------------------------
\* filesystem.c

\* file is [ret |-> what bpf_d_path returns, path |-> what it wrote]; the
\* result is the path left in path_buf, or "fail" for -1.
extract_file_path(has_file, file, buf_size) ==
    IF ~has_file THEN [rc |-> -1, path |-> <<>>]
    ELSE IF file.ret < 0 THEN [rc |-> -1, path |-> <<>>]
    ELSE IF file.ret >= buf_size
         THEN [rc |-> 0, path |-> SubSeq(file.path, 1, Min(Len(file.path), buf_size - 1))]
    ELSE IF file.ret > 0
         THEN [rc |-> 0, path |-> SubSeq(file.path, 1, Min(Len(file.path), file.ret))]
    ELSE [rc |-> 0, path |-> <<>>]

\* The body shared by kprobe_vfs_write, kprobe_vfs_read and kprobe_vfs_fsync.
vfs_enter(m, c) ==
    LET key == get_key(c.pid, c.tid)
        m1 == [m EXCEPT !.start_times = bpf_map_update_elem(@, key, c.now, MAX_ENTRIES)]
        x == extract_file_path(c.has_arg, c.arg, MAX_STRING_LEN)
    IN IF c.has_arg /\ x.rc = 0
       THEN [m1 EXCEPT !.file_paths = bpf_map_update_elem(@, key, x.path, MAX_ENTRIES)]
       ELSE m1

kprobe_vfs_write(m, c) == vfs_enter(m, c)
kprobe_vfs_read(m, c) == vfs_enter(m, c)
kprobe_vfs_fsync(m, c) == vfs_enter(m, c)

\* The body shared, up to the event type, by kretprobe_vfs_read and
\* kretprobe_vfs_write.
vfs_rw_ret(m, c, type) ==
    LET key == get_key(c.pid, c.tid) IN
    IF ~Has(m.start_times, key) THEN m
    ELSE
      LET latency == calc_latency(m.start_times[key], c.now) IN
      IF latency < MIN_LATENCY_NS
      THEN [m EXCEPT !.start_times = bpf_map_delete_elem(@, key)]
      ELSE
        LET ret == c.rc
            bytes == IF ret > 0 /\ ret < MAX_BYTES_THRESHOLD THEN ret ELSE 0
        IN
        IF ~get_event_buf(c)
        THEN [m EXCEPT !.start_times = bpf_map_delete_elem(@, key)]
        ELSE
          LET p == Has(m.file_paths, key)
              e == [ZeroEvent EXCEPT !.timestamp = c.now, !.pid = c.pid,
                        !.type = type, !.latency_ns = latency,
                        !.error = IF ret < 0 THEN ret ELSE 0,
                        !.bytes = bytes, !.tcp_state = 0,
                        !.target = IF p
                                   THEN bpf_probe_read_str(m.file_paths[key], MAX_STRING_LEN)
                                   ELSE <<>>]
              m1 == IF p
                    THEN [m EXCEPT !.file_paths = bpf_map_delete_elem(@, key)]
                    ELSE m
              m2 == submit(m1, c, c.pid, c.tid, e)
          IN [m2 EXCEPT !.start_times = bpf_map_delete_elem(@, key)]

\* A variant of kretprobe_vfs_read that keeps its correlation entries when the
\* ring buffer rejects the record (as a producer that meant to retry would).
kretprobe_vfs_read_keep(m, c) ==
    LET accepted == vfs_rw_ret(m, [c EXCEPT !.ring_ok = TRUE], "EVENT_READ")
    IN IF ~c.ring_ok /\ accepted.events # <<>>
       THEN m
       ELSE vfs_rw_ret(m, c, "EVENT_READ")

kretprobe_vfs_read(m, c) == vfs_rw_ret(m, c, "EVENT_READ")
kretprobe_vfs_write(m, c) == vfs_rw_ret(m, c, "EVENT_WRITE")

kretprobe_vfs_fsync(m, c) ==
    LET key == get_key(c.pid, c.tid) IN
    IF ~Has(m.start_times, key) THEN m
    ELSE
      LET latency == calc_latency(m.start_times[key], c.now) IN
      IF latency < MIN_LATENCY_NS
      THEN [m EXCEPT !.start_times = bpf_map_delete_elem(@, key)]
      ELSE IF ~get_event_buf(c)
      THEN [m EXCEPT !.start_times = bpf_map_delete_elem(@, key)]
      ELSE
        LET p == Has(m.file_paths, key)
            e == [ZeroEvent EXCEPT !.timestamp = c.now, !.pid = c.pid,
                      !.type = "EVENT_FSYNC", !.latency_ns = latency,
                      !.error = c.rc, !.bytes = 0, !.tcp_state = 0,
                      !.target = IF p
                                 THEN bpf_probe_read_str(m.file_paths[key], MAX_STRING_LEN)
                                 ELSE <<>>]
            m1 == IF p
                  THEN [m EXCEPT !.file_paths = bpf_map_delete_elem(@, key)]
                  ELSE m
            m2 == submit(m1, c, c.pid, c.tid, e)
        IN [m2 EXCEPT !.start_times = bpf_map_delete_elem(@, key)]

----------------------------------------------------------------------------
\* cpu.c

HEX_ADDR_LEN == 16

\* tp/sched/sched_switch: prev_pid leaves the CPU, next_pid gets it.
tracepoint_sched_switch(m, c, prev_pid, next_pid) ==
    LET timestamp == c.now
        key == get_key(prev_pid, 0)
        new_key == get_key(next_pid, 0)
        set_next(mm) ==
            IF next_pid > 0
            THEN [mm EXCEPT !.start_times =
                      bpf_map_update_elem(@, new_key, c.now, MAX_ENTRIES)]
            ELSE mm
        del_prev(mm) ==
            [mm EXCEPT !.start_times = bpf_map_delete_elem(@, key)]
    IN IF prev_pid > 0 /\ Has(m.start_times, key)
       THEN LET block_time == calc_latency(m.start_times[key], c.now) IN
            IF block_time > MIN_LATENCY_NS
            THEN IF ~get_event_buf(c)
                 THEN del_prev(m)
                 ELSE LET e == [ZeroEvent EXCEPT
                                   !.timestamp = timestamp, !.pid = prev_pid,
                                   !.type = "EVENT_SCHED_SWITCH",
                                   !.latency_ns = block_time, !.error = 0,
                                   !.bytes = 0, !.tcp_state = 0,
                                   !.target = <<>>, !.details = <<>>]
                      IN set_next(del_prev(submit(m, c, prev_pid, 0, e)))
            ELSE set_next(del_prev(m))
       ELSE set_next(m)

HexDigit(n) ==
    <<"0", "1", "2", "3", "4", "5", "6", "7", "8", "9",
      "a", "b", "c", "d", "e", "f">>[n + 1]

\* The nibble loop of kprobe_do_futex and uprobe_pthread_mutex_lock: the n
\* low nibbles of addr, most significant first.
RECURSIVE hex_addr(_, _)
hex_addr(addr, n) ==
    IF n = 0 THEN <<>>
    ELSE hex_addr(addr \div 16, n - 1) \o <<HexDigit(addr % 16)>>

kprobe_do_futex(m, c) ==
    LET key == get_key(c.pid, c.tid)
        m1 == [m EXCEPT !.start_times = bpf_map_update_elem(@, key, c.now, MAX_ENTRIES)]
    IN IF c.has_arg
       THEN [m1 EXCEPT !.lock_targets =
                bpf_map_update_elem(@, key,
                    <<"0", "x">> \o hex_addr(c.arg, HEX_ADDR_LEN), MAX_ENTRIES)]
       ELSE m1

uprobe_pthread_mutex_lock(m, c) ==
    LET key == get_key(c.pid, c.tid)
        m1 == [m EXCEPT !.start_times = bpf_map_update_elem(@, key, c.now, MAX_ENTRIES)]
    IN IF c.has_arg
       THEN [m1 EXCEPT !.lock_targets =
                bpf_map_update_elem(@, key,
                    <<"m", "t", "x", "@", "0", "x">> \o hex_addr(c.arg, HEX_ADDR_LEN),
                    MAX_ENTRIES)]
       ELSE m1

\* A variant of lock_ret that reports only failures in e->error, as the VFS
\* read and write probes do.
lock_ret_errno(m, c) ==
    LET key == get_key(c.pid, c.tid) IN
    IF ~Has(m.start_times, key) THEN m
    ELSE
      LET latency == calc_latency(m.start_times[key], c.now) IN
      IF latency < MIN_LATENCY_NS \/ ~get_event_buf(c)
      THEN [m EXCEPT !.start_times = bpf_map_delete_elem(@, key)]
      ELSE
        LET n == Has(m.lock_targets, key)
            e == [ZeroEvent EXCEPT !.timestamp = c.now, !.pid = c.pid,
                      !.type = "EVENT_LOCK_CONTENTION", !.latency_ns = latency,
                      !.error = IF c.rc < 0 THEN c.rc ELSE 0,
                      !.target = IF n
                                 THEN bpf_probe_read_str(m.lock_targets[key], MAX_STRING_LEN)
                                 ELSE <<>>]
            m1 == [m EXCEPT !.lock_targets = bpf_map_delete_elem(@, key)]
            m2 == submit(m1, c, c.pid, c.tid, e)
        IN [m2 EXCEPT !.start_times = bpf_map_delete_elem(@, key)]

\* The body shared by kretprobe_do_futex and uretprobe_pthread_mutex_lock.
lock_ret(m, c) ==
    LET key == get_key(c.pid, c.tid) IN
    IF ~Has(m.start_times, key) THEN m
    ELSE
      LET latency == calc_latency(m.start_times[key], c.now) IN
      IF latency < MIN_LATENCY_NS
      THEN [m EXCEPT !.start_times = bpf_map_delete_elem(@, key)]
      ELSE IF ~get_event_buf(c)
      THEN [m EXCEPT !.start_times = bpf_map_delete_elem(@, key)]
      ELSE
        LET n == Has(m.lock_targets, key)
            e == [ZeroEvent EXCEPT !.timestamp = c.now, !.pid = c.pid,
                      !.type = "EVENT_LOCK_CONTENTION", !.latency_ns = latency,
                      !.error = c.rc, !.bytes = 0, !.tcp_state = 0,
                      !.target = IF n
                                 THEN bpf_probe_read_str(m.lock_targets[key], MAX_STRING_LEN)
                                 ELSE <<>>]
            m1 == IF n
                  THEN [m EXCEPT !.lock_targets = bpf_map_delete_elem(@, key)]
                  ELSE m
            m2 == submit(m1, c, c.pid, c.tid, e)
        IN [m2 EXCEPT !.start_times = bpf_map_delete_elem(@, key)]

kretprobe_do_futex(m, c) == lock_ret(m, c)
uretprobe_pthread_mutex_lock(m, c) == lock_ret(m, c)

----------------------------------------------------------------------------
\* syscalls.c

\* The body shared by kprobe_do_execveat_common and kprobe_do_sys_openat2.
path_enter(m, c) ==
    LET key == get_key(c.pid, c.tid)
        m1 == [m EXCEPT !.start_times = bpf_map_update_elem(@, key, c.now, MAX_ENTRIES)]
    IN IF c.has_arg
       THEN [m1 EXCEPT !.syscall_paths =
                bpf_map_update_elem(@, key, bpf_probe_read_str(c.arg, MAX_STRING_LEN),
                                    MAX_ENTRIES)]
       ELSE m1

kprobe_do_execveat_common(m, c) == path_enter(m, c)
kprobe_do_sys_openat2(m, c) == path_enter(m, c)

\* The body shared by the four exit probes of syscalls.c, which differ in the
\* event type, in e->bytes and in what they do when there is no event record.
path_ret(m, c, type, bytes, del_on_null) ==
    LET key == get_key(c.pid, c.tid) IN
    IF ~Has(m.start_times, key) THEN m
    ELSE
      LET latency == calc_latency(m.start_times[key], c.now)
          ret == c.rc
      IN
      IF ~get_event_buf(c)
      THEN IF del_on_null
           THEN [m EXCEPT !.start_times = bpf_map_delete_elem(@, key)]
           ELSE m
      ELSE
        LET p == Has(m.syscall_paths, key)
            e == [ZeroEvent EXCEPT !.timestamp = c.now, !.pid = c.pid,
                      !.type = type, !.latency_ns = latency,
                      !.error = IF ret < 0 THEN ret ELSE 0,
                      !.bytes = bytes, !.tcp_state = 0,
                      !.target = IF p
                                 THEN bpf_probe_read_str(m.syscall_paths[key], MAX_STRING_LEN)
                                 ELSE <<>>]
            m1 == IF p
                  THEN [m EXCEPT !.syscall_paths = bpf_map_delete_elem(@, key)]
                  ELSE m
            m2 == submit(m1, c, c.pid, c.tid, e)
        IN [m2 EXCEPT !.start_times = bpf_map_delete_elem(@, key)]

kretprobe_do_execveat_common(m, c) == path_ret(m, c, "EVENT_EXEC", 0, FALSE)

kretprobe_do_sys_openat2(m, c) ==
    path_ret(m, c, "EVENT_OPEN", IF c.rc >= 0 THEN c.rc ELSE 0, FALSE)

\* Built with PODTRACE_VMLINUX_FROM_BTF; the argument is the dentry, a record
\* [has_name, name].
kprobe_vfs_unlink(m, c) ==
    LET key == get_key(c.pid, c.tid)
        m1 == [m EXCEPT !.start_times = bpf_map_update_elem(@, key, c.now, MAX_ENTRIES)]
    IN IF c.has_arg /\ c.arg.has_name
       THEN [m1 EXCEPT !.syscall_paths =
                bpf_map_update_elem(@, key, bpf_probe_read_str(c.arg.name, MAX_STRING_LEN),
                                    MAX_ENTRIES)]
       ELSE m1

kretprobe_vfs_unlink(m, c) == path_ret(m, c, "EVENT_UNLINK", 0, TRUE)

\* The argument is the pair of dentries [old, new], present when both are.
kprobe_vfs_rename(m, c) ==
    LET key == get_key(c.pid, c.tid)
        m1 == [m EXCEPT !.start_times = bpf_map_update_elem(@, key, c.now, MAX_ENTRIES)]
        max_idx == MAX_STRING_LEN - 1
        old == IF c.arg.old.has_name
               THEN bpf_probe_read_str(c.arg.old.name, MAX_STRING_LEN - 1)
               ELSE <<>>
        idx == Len(old)
        sep == IF idx < max_idx THEN <<">">> ELSE <<>>
        idx2 == idx + Len(sep)
        new == IF c.arg.new.has_name /\ idx2 < max_idx
               THEN bpf_probe_read_str(c.arg.new.name, max_idx - idx2)
               ELSE <<>>
    IN IF c.has_arg
       THEN [m1 EXCEPT !.syscall_paths =
                bpf_map_update_elem(@, key, old \o sep \o new, MAX_ENTRIES)]
       ELSE m1

kretprobe_vfs_rename(m, c) == path_ret(m, c, "EVENT_RENAME", 0, TRUE)

----------------------------------------------------------------------------
\* memcached.c

mc_store_op(m, key, ts, op_prefix, prefix_len, mc_key, bytes_val) ==
    LET remaining == MAX_STRING_LEN - prefix_len - 1
        buf == (IF prefix_len < MAX_STRING_LEN THEN op_prefix ELSE <<>>)
                 \o (IF remaining > 0 THEN bpf_probe_read_str(mc_key, remaining) ELSE <<>>)
        m1 == [m EXCEPT !.memcached_ops = bpf_map_update_elem(@, key, buf, MAX_ENTRIES)]
        m2 == [m1 EXCEPT !.start_times = bpf_map_update_elem(@, key, ts, MAX_ENTRIES)]
    IN IF bytes_val > 0
       THEN [m2 EXCEPT !.proto_bytes = bpf_map_update_elem(@, key, bytes_val, MAX_ENTRIES)]
       ELSE m2

mc_emit(m, c, key, pid, tid) ==
    IF ~Has(m.start_times, key) THEN m
    ELSE
      LET latency == calc_latency(m.start_times[key], c.now) IN
      IF ~get_event_buf(c)
      THEN [m EXCEPT !.start_times = bpf_map_delete_elem(@, key),
                     !.memcached_ops = bpf_map_delete_elem(@, key),
                     !.proto_bytes = bpf_map_delete_elem(@, key)]
      ELSE
        LET e == [ZeroEvent EXCEPT !.timestamp = c.now, !.pid = pid,
                      !.type = "EVENT_MEMCACHED_CMD", !.latency_ns = latency,
                      !.error = c.rc, !.tcp_state = 0,
                      !.bytes = IF Has(m.proto_bytes, key) THEN m.proto_bytes[key] ELSE 0,
                      !.details = IF Has(m.memcached_ops, key)
                                  THEN bpf_probe_read_str(m.memcached_ops[key], MAX_STRING_LEN)
                                  ELSE <<>>,
                      !.target = <<>>]
            m1 == submit(m, c, pid, tid, e)
        IN [m1 EXCEPT !.start_times = bpf_map_delete_elem(@, key),
                      !.memcached_ops = bpf_map_delete_elem(@, key),
                      !.proto_bytes = bpf_map_delete_elem(@, key)]

uprobe_memcached_get(m, c) ==
    IF ~c.has_arg THEN m
    ELSE mc_store_op(m, get_key(c.pid, c.tid), c.now, <<"g", "e", "t", " ">>, 4,
                     c.arg.key, 0)

uretprobe_memcached_get(m, c) == mc_emit(m, c, get_key(c.pid, c.tid), c.pid, c.tid)

uprobe_memcached_set(m, c) ==
    IF ~c.has_arg THEN m
    ELSE mc_store_op(m, get_key(c.pid, c.tid), c.now, <<"s", "e", "t", " ">>, 4,
                     c.arg.key, c.arg.vlen)

uretprobe_memcached_set(m, c) == mc_emit(m, c, get_key(c.pid, c.tid), c.pid, c.tid)

uprobe_memcached_delete(m, c) ==
    IF ~c.has_arg THEN m
    ELSE mc_store_op(m, get_key(c.pid, c.tid), c.now, <<"d", "e", "l", " ">>, 4,
                     c.arg.key, 0)

uretprobe_memcached_delete(m, c) == mc_emit(m, c, get_key(c.pid, c.tid), c.pid, c.tid)

----------------------------------------------------------------------------
\* redis.c

\* The loop of redis_store_cmd that cuts the format at its first blank, '%'
\* or NUL.
RECURSIVE redis_cmd_name(_)
redis_cmd_name(buf) ==
    IF buf = <<>> \/ Head(buf) \in {" ", "%"}
    THEN <<>>
    ELSE <<Head(buf)>> \o redis_cmd_name(Tail(buf))

redis_store_cmd(m, key, format, ts) ==
    LET buf == redis_cmd_name(bpf_probe_read_str(format, MAX_STRING_LEN))
        m1 == [m EXCEPT !.redis_cmds = bpf_map_update_elem(@, key, buf, MAX_ENTRIES)]
    IN [m1 EXCEPT !.start_times = bpf_map_update_elem(@, key, ts, MAX_ENTRIES)]

redis_emit(m, c, key, pid, tid) ==
    IF ~Has(m.start_times, key) THEN m
    ELSE
      LET latency == calc_latency(m.start_times[key], c.now) IN
      IF ~get_event_buf(c)
      THEN [m EXCEPT !.start_times = bpf_map_delete_elem(@, key),
                     !.redis_cmds = bpf_map_delete_elem(@, key)]
      ELSE
        LET e == [ZeroEvent EXCEPT !.timestamp = c.now, !.pid = pid,
                      !.type = "EVENT_REDIS_CMD", !.latency_ns = latency,
                      !.error = IF c.rc = 0 THEN -1 ELSE 0,
                      !.bytes = 0, !.tcp_state = 0,
                      !.details = IF Has(m.redis_cmds, key)
                                  THEN bpf_probe_read_str(m.redis_cmds[key], MAX_STRING_LEN)
                                  ELSE <<>>,
                      !.target = IF Has(m.socket_conns, key)
                                 THEN bpf_probe_read_str(m.socket_conns[key], MAX_STRING_LEN)
                                 ELSE <<>>]
            m1 == submit(m, c, pid, tid, e)
        IN [m1 EXCEPT !.start_times = bpf_map_delete_elem(@, key),
                      !.redis_cmds = bpf_map_delete_elem(@, key)]

uprobe_redisCommand(m, c) ==
    IF c.has_arg THEN redis_store_cmd(m, get_key(c.pid, c.tid), c.arg, c.now) ELSE m

uretprobe_redisCommand(m, c) == redis_emit(m, c, get_key(c.pid, c.tid), c.pid, c.tid)

\* The argument is argv: [read_ok, has_cmd, cmd] for the read of argv[0].
uprobe_redisCommandArgv(m, c) ==
    LET key == get_key(c.pid, c.tid) IN
    IF ~c.has_arg THEN m
    ELSE IF ~c.arg.read_ok \/ ~c.arg.has_cmd THEN m
    ELSE
      LET buf == bpf_probe_read_str(c.arg.cmd, MAX_STRING_LEN)
          m1 == [m EXCEPT !.redis_cmds = bpf_map_update_elem(@, key, buf, MAX_ENTRIES)]
      IN [m1 EXCEPT !.start_times = bpf_map_update_elem(@, key, c.now, MAX_ENTRIES)]

uretprobe_redisCommandArgv(m, c) == redis_emit(m, c, get_key(c.pid, c.tid), c.pid, c.tid)

----------------------------------------------------------------------------
\* kafka.c

uprobe_rd_kafka_topic_new(m, c) ==
    LET key == get_key(c.pid, c.tid) IN
    IF ~c.has_arg THEN m
    ELSE [m EXCEPT !.kafka_topic_tmp =
             bpf_map_update_elem(@, key, bpf_probe_read_str(c.arg, MAX_STRING_LEN),
                                 KAFKA_MAX_ENTRIES)]

uretprobe_rd_kafka_topic_new(m, c) ==
    LET key == get_key(c.pid, c.tid)
        topic_ptr == c.rc
    IN
    IF topic_ptr = 0
    THEN [m EXCEPT !.kafka_topic_tmp = bpf_map_delete_elem(@, key)]
    ELSE IF Has(m.kafka_topic_tmp, key)
    THEN [m EXCEPT !.kafka_topic_names =
                       bpf_map_update_elem(@, topic_ptr, m.kafka_topic_tmp[key],
                                           KAFKA_MAX_ENTRIES),
                   !.kafka_topic_tmp = bpf_map_delete_elem(@, key)]
    ELSE m

\* The argument is [rkt, len]: PARM1 and PARM5.
uprobe_rd_kafka_produce(m, c) ==
    LET key == get_key(c.pid, c.tid)
        rkt_ptr == c.arg.rkt
        payload_len == c.arg.len
        topic_buf == IF Has(m.kafka_topic_names, rkt_ptr)
                     THEN bpf_probe_read_str(m.kafka_topic_names[rkt_ptr], MAX_STRING_LEN)
                     ELSE <<>>
        m1 == [m EXCEPT !.redis_cmds = bpf_map_update_elem(@, key, topic_buf, MAX_ENTRIES)]
        m2 == [m1 EXCEPT !.start_times = bpf_map_update_elem(@, key, c.now, MAX_ENTRIES)]
    IN IF payload_len > 0 /\ payload_len < MAX_BYTES_THRESHOLD
       THEN [m2 EXCEPT !.proto_bytes =
                bpf_map_update_elem(@, key, payload_len, MAX_ENTRIES)]
       ELSE m2

uretprobe_rd_kafka_produce(m, c) ==
    LET key == get_key(c.pid, c.tid) IN
    IF ~Has(m.start_times, key) THEN m
    ELSE
      LET latency == calc_latency(m.start_times[key], c.now) IN
      IF ~get_event_buf(c)
      THEN [m EXCEPT !.start_times = bpf_map_delete_elem(@, key),
                     !.redis_cmds = bpf_map_delete_elem(@, key),
                     !.proto_bytes = bpf_map_delete_elem(@, key)]
      ELSE
        LET e == [ZeroEvent EXCEPT !.timestamp = c.now, !.pid = c.pid,
                      !.type = "EVENT_KAFKA_PRODUCE", !.latency_ns = latency,
                      !.error = c.rc, !.tcp_state = 0, !.target = <<>>,
                      !.bytes = IF Has(m.proto_bytes, key) THEN m.proto_bytes[key] ELSE 0,
                      !.details = IF Has(m.redis_cmds, key)
                                  THEN bpf_probe_read_str(m.redis_cmds[key], MAX_STRING_LEN)
                                  ELSE <<>>]
            m1 == submit(m, c, c.pid, c.tid, e)
        IN [m1 EXCEPT !.start_times = bpf_map_delete_elem(@, key),
                      !.redis_cmds = bpf_map_delete_elem(@, key),
                      !.proto_bytes = bpf_map_delete_elem(@, key)]

uprobe_rd_kafka_consumer_poll(m, c) ==
    LET key == get_key(c.pid, c.tid)
    IN [m EXCEPT !.start_times = bpf_map_update_elem(@, key, c.now, MAX_ENTRIES)]

\* The return value is the message pointer; the argument is the message it
\* points to, [err, rkt, len].
uretprobe_rd_kafka_consumer_poll(m, c) ==
    LET key == get_key(c.pid, c.tid) IN
    IF ~Has(m.start_times, key) THEN m
    ELSE
      LET latency == calc_latency(m.start_times[key], c.now)
          msg_ptr == c.rc
      IN
      IF msg_ptr = 0
      THEN [m EXCEPT !.start_times = bpf_map_delete_elem(@, key)]
      ELSE IF ~get_event_buf(c)
      THEN [m EXCEPT !.start_times = bpf_map_delete_elem(@, key)]
      ELSE
        LET msg == c.arg
            e == [ZeroEvent EXCEPT !.timestamp = c.now, !.pid = c.pid,
                      !.type = "EVENT_KAFKA_FETCH", !.latency_ns = latency,
                      !.tcp_state = 0, !.target = <<>>,
                      !.error = msg.err,
                      !.bytes = IF msg.len < MAX_BYTES_THRESHOLD THEN msg.len ELSE 0,
                      !.details =
                          IF msg.rkt # 0 /\ Has(m.kafka_topic_names, msg.rkt)
                          THEN bpf_probe_read_str(m.kafka_topic_names[msg.rkt],
                                                  MAX_STRING_LEN)
                          ELSE <<>>]
            m1 == submit(m, c, c.pid, c.tid, e)
        IN [m1 EXCEPT !.start_times = bpf_map_delete_elem(@, key)]

----------------------------------------------------------------------------
\* database.c

DB_TYPE_SQLITE == 1
DB_TYPE_POSTGRESQL == 2
DB_TYPE_MYSQL == 3
RESOURCE_CPU == 0
RESOURCE_MEMORY == 1
RESOURCE_IO == 2

get_pool_key(pid, tid) == pid * (2 ^ KeyShift) + tid

emit_pool_event(m, c, pid, type, latency_ns, db_type) ==
    IF ~get_event_buf(c) THEN m
    ELSE
      LET pool_name ==
              IF db_type = DB_TYPE_SQLITE
              THEN <<"s", "q", "l", "i", "t", "e", "-", "p", "o", "o", "l">>
              ELSE IF db_type = DB_TYPE_POSTGRESQL
              THEN <<"p", "o", "s", "t", "g", "r", "e", "s", "q", "l",
                     "-", "p", "o", "o", "l">>
              ELSE IF db_type = DB_TYPE_MYSQL
              THEN <<"m", "y", "s", "q", "l", "-", "p", "o", "o", "l">>
              ELSE <<"d", "e", "f", "a", "u", "l", "t", "-", "p", "o", "o", "l">>
          e == [ZeroEvent EXCEPT !.timestamp = c.now, !.pid = pid, !.type = type,
                    !.latency_ns = latency_ns, !.error = 0, !.bytes = 0,
                    !.tcp_state = 0, !.stack_key = 0,
                    !.target = bpf_probe_read_str(pool_name, MAX_STRING_LEN),
                    !.details = <<>>]
      IN bpf_ringbuf_output(m, c, e)

\* A variant of handle_pool_acquire that also announces the busy keepalive.
handle_pool_acquire_busy(m, c, pid, tid, key, ts, db_type) ==
    LET m1 == [m EXCEPT
                 !.pool_states = bpf_map_update_elem(@, key,
                     [connection_id |-> tid, last_use_ns |-> ts, in_use |-> 1],
                     MAX_ENTRIES),
                 !.pool_db_types = bpf_map_update_elem(@, key, db_type, MAX_ENTRIES),
                 !.pool_acquire_times = bpf_map_update_elem(@, key, ts, MAX_ENTRIES)]
    IN emit_pool_event(m1, c, pid, "EVENT_POOL_ACQUIRE", 0, db_type)

\* A variant of handle_pool_acquire whose keepalive of a busy connection
\* also restarts the wait measured by handle_pool_exhaustion.
handle_pool_acquire_retime(m, c, pid, tid, key, ts, db_type) ==
    IF Has(m.pool_states, key) /\ m.pool_states[key].in_use # 0
    THEN [m EXCEPT !.pool_states[key] = [@ EXCEPT !.last_use_ns = ts],
                   !.pool_acquire_times = bpf_map_update_elem(@, key, ts, MAX_ENTRIES)]
    ELSE handle_pool_acquire_busy(m, c, pid, tid, key, ts, db_type)

\* A variant of handle_pool_acquire that renames a busy pool after the
\* library of the latest caller.
handle_pool_acquire_rename(m, c, pid, tid, key, ts, db_type) ==
    IF Has(m.pool_states, key) /\ m.pool_states[key].in_use # 0
    THEN [m EXCEPT !.pool_states[key] = [@ EXCEPT !.last_use_ns = ts],
                   !.pool_db_types = bpf_map_update_elem(@, key, db_type, MAX_ENTRIES)]
    ELSE handle_pool_acquire_busy(m, c, pid, tid, key, ts, db_type)

handle_pool_acquire(m, c, pid, tid, key, ts, db_type) ==
    IF ~Has(m.pool_states, key)
    THEN
      LET new_state == [connection_id |-> tid, last_use_ns |-> ts, in_use |-> 1]
          m1 == [m EXCEPT
                   !.pool_states = bpf_map_update_elem(@, key, new_state, MAX_ENTRIES),
                   !.pool_db_types = bpf_map_update_elem(@, key, db_type, MAX_ENTRIES),
                   !.pool_acquire_times = bpf_map_update_elem(@, key, ts, MAX_ENTRIES)]
      IN emit_pool_event(m1, c, pid, "EVENT_POOL_ACQUIRE", 0, db_type)
    ELSE IF m.pool_states[key].in_use = 0
    THEN
      LET m1 == [m EXCEPT
                   !.pool_states[key] = [@ EXCEPT !.in_use = 1, !.last_use_ns = ts],
                   !.pool_db_types = bpf_map_update_elem(@, key, db_type, MAX_ENTRIES),
                   !.pool_acquire_times = bpf_map_update_elem(@, key, ts, MAX_ENTRIES)]
      IN emit_pool_event(m1, c, pid, "EVENT_POOL_ACQUIRE", 0, db_type)
    ELSE [m EXCEPT !.pool_states[key] = [@ EXCEPT !.last_use_ns = ts]]

\* A variant of handle_pool_release that announces every release it sees.
handle_pool_release_always(m, c, pid, tid, key) ==
    IF ~Has(m.pool_states, key) THEN m
    ELSE emit_pool_event([m EXCEPT !.pool_states[key] = [@ EXCEPT !.in_use = 0]],
                         c, pid, "EVENT_POOL_RELEASE", 0,
                         IF Has(m.pool_db_types, key) THEN m.pool_db_types[key]
                         ELSE DB_TYPE_SQLITE)

handle_pool_release(m, c, pid, tid, key) ==
    IF ~Has(m.pool_states, key) THEN m
    ELSE
      LET db == IF Has(m.pool_db_types, key) THEN m.pool_db_types[key]
                ELSE DB_TYPE_SQLITE
      IN IF m.pool_states[key].in_use = 1
         THEN emit_pool_event([m EXCEPT !.pool_states[key] = [@ EXCEPT !.in_use = 0]],
                              c, pid, "EVENT_POOL_RELEASE", 0, db)
         ELSE m

handle_pool_exhaustion(m, c, pid, tid, key, ts) ==
    IF Has(m.pool_acquire_times, key) /\ ts > m.pool_acquire_times[key]
    THEN
      LET wait_time == ts - m.pool_acquire_times[key] IN
      IF wait_time > 10000000
      THEN
        LET db == IF Has(m.pool_db_types, key) THEN m.pool_db_types[key]
                  ELSE DB_TYPE_SQLITE
        IN emit_pool_event(m, c, pid, "EVENT_POOL_EXHAUSTED", wait_time, db)
      ELSE m
    ELSE m

uprobe_sqlite3_prepare_v2(m, c) ==
    handle_pool_acquire(m, c, c.pid, c.tid, get_pool_key(c.pid, c.tid), c.now,
                        DB_TYPE_SQLITE)

uprobe_sqlite3_prepare(m, c) ==
    handle_pool_acquire(m, c, c.pid, c.tid, get_pool_key(c.pid, c.tid), c.now,
                        DB_TYPE_SQLITE)

uprobe_sqlite3_prepare16(m, c) ==
    handle_pool_acquire(m, c, c.pid, c.tid, get_pool_key(c.pid, c.tid), c.now,
                        DB_TYPE_SQLITE)

uprobe_sqlite3_prepare16_v2(m, c) ==
    handle_pool_acquire(m, c, c.pid, c.tid, get_pool_key(c.pid, c.tid), c.now,
                        DB_TYPE_SQLITE)

uretprobe_sqlite3_finalize(m, c) ==
    handle_pool_release(m, c, c.pid, c.tid, get_pool_key(c.pid, c.tid))

uprobe_sqlite3_step(m, c) ==
    handle_pool_exhaustion(m, c, c.pid, c.tid, get_pool_key(c.pid, c.tid), c.now)

\* A variant of uretprobe_sqlite3_step that leaves the acquire time in place.
uretprobe_sqlite3_step_keep(m, c) == m

uretprobe_sqlite3_step(m, c) ==
    [m EXCEPT !.pool_acquire_times =
        bpf_map_delete_elem(@, get_pool_key(c.pid, c.tid))]

uprobe_PQconnectStart(m, c) ==
    handle_pool_acquire(m, c, c.pid, c.tid, get_pool_key(c.pid, c.tid), c.now,
                        DB_TYPE_POSTGRESQL)

uretprobe_PQfinish(m, c) ==
    handle_pool_release(m, c, c.pid, c.tid, get_pool_key(c.pid, c.tid))

uprobe_PQexec_pool(m, c) ==
    handle_pool_exhaustion(m, c, c.pid, c.tid, get_pool_key(c.pid, c.tid), c.now)

uprobe_mysql_real_connect(m, c) ==
    handle_pool_acquire(m, c, c.pid, c.tid, get_pool_key(c.pid, c.tid), c.now,
                        DB_TYPE_MYSQL)

uretprobe_mysql_close(m, c) ==
    handle_pool_release(m, c, c.pid, c.tid, get_pool_key(c.pid, c.tid))

uprobe_mysql_real_query_pool(m, c) ==
    handle_pool_exhaustion(m, c, c.pid, c.tid, get_pool_key(c.pid, c.tid), c.now)

----------------------------------------------------------------------------
\* resources.c: the cgroup utilization engine.  u64 is modelled U64Bits wide.

\* A variant of calculate_utilization without the two clamps to 100.
calculate_utilization_unclamped(usage, limit) ==
    IF limit = 0 \/ limit = U64Max THEN 0
    ELSE ((usage * 100) % (2 ^ U64Bits)) \div limit

\* usage and limit are u64; the product usage * 100 is a u64 too.
calculate_utilization(usage, limit) ==
    IF limit = 0 \/ limit = U64Max THEN 0
    ELSE IF usage > limit THEN 100
    ELSE LET percent == ((usage * 100) % (2 ^ U64Bits)) \div limit
         IN IF percent > 100 THEN 100 ELSE percent

\* A variant of check_alert_threshold that takes an unset slot as it reads.
check_alert_threshold_unset(m, utilization) ==
    IF utilization >= m.alert_thresholds[3] THEN 3
    ELSE IF utilization >= m.alert_thresholds[2] THEN 2
    ELSE IF utilization >= m.alert_thresholds[1] THEN 1
    ELSE 0

\* alert_thresholds is an array of three u32, zero until the loader writes it.
check_alert_threshold(m, utilization) ==
    LET emerg == IF m.alert_thresholds[3] > 0 THEN m.alert_thresholds[3] ELSE 95
        crit == IF m.alert_thresholds[2] > 0 THEN m.alert_thresholds[2] ELSE 90
        warn == IF m.alert_thresholds[1] > 0 THEN m.alert_thresholds[1] ELSE 80
    IN IF utilization >= emerg THEN 3
       ELSE IF utilization >= crit THEN 2
       ELSE IF utilization >= warn THEN 1
       ELSE 0

\* A variant of resource_details that always writes two digits.
resource_details_padded(resource_type, utilization) ==
    (IF resource_type = RESOURCE_CPU THEN <<"C", "P", "U">>
     ELSE IF resource_type = RESOURCE_MEMORY THEN <<"M", "E", "M">>
     ELSE <<"I", "O">>)
        \o <<":", Digit((utilization \div 10) % 10), Digit(utilization % 10), "%">>

\* details = "{CPU|MEM|IO}:{pct}%"; the index never comes near max_idx.
resource_details(resource_type, utilization) ==
    LET name == IF resource_type = RESOURCE_CPU THEN <<"C", "P", "U">>
                ELSE IF resource_type = RESOURCE_MEMORY THEN <<"M", "E", "M">>
                ELSE IF resource_type = RESOURCE_IO THEN <<"I", "O">>
                ELSE <<>>
        pct == IF utilization >= 100 THEN <<"1", "0", "0">>
               ELSE IF utilization >= 10
               THEN <<Digit(utilization \div 10), Digit(utilization % 10)>>
               ELSE <<Digit(utilization)>>
    IN name \o <<":">> \o pct \o <<"%">>

emit_resource_alert(m, c, cgroup_id, resource_type, utilization, limit, usage) ==
    IF ~get_event_buf(c) THEN m
    ELSE
      LET e == [ZeroEvent EXCEPT !.timestamp = c.now, !.pid = 0,
                    !.type = "EVENT_RESOURCE_LIMIT", !.latency_ns = 0,
                    !.error = utilization, !.bytes = usage,
                    !.tcp_state = resource_type, !.target = <<>>,
                    !.details = resource_details(resource_type, utilization)]
          m1 == bpf_ringbuf_output(m, c, e)
          alert_level == check_alert_threshold(m1, utilization)
      IN IF alert_level > 0
         THEN [m1 EXCEPT !.cgroup_alerts =
                   bpf_map_update_elem(@, cgroup_id, alert_level, MAX_ENTRIES)]
         ELSE [m1 EXCEPT !.cgroup_alerts = bpf_map_delete_elem(@, cgroup_id)]

----------------------------------------------------------------------------
\* fastcgi.c: FastCGI records on unix sockets.  A buffer is a sequence of
\* bytes; a char array holds the C string that ends before its first NUL.

FCGI_VERSION_1 == 1

FCGI_END_REQUEST == 3

FCGI_PARAMS == 4

FCGI_HEADER_LEN == 8

FCGI_PARAMS_SCAN_LEN == 200

FCGI_METHOD_LEN == 16

\* "REQUEST_URI" and "REQUEST_METHOD", the names the scan compares byte by byte.
REQUEST_URI == <<82, 69, 81, 85, 69, 83, 84, 95, 85, 82, 73>>

REQUEST_METHOD == <<82, 69, 81, 85, 69, 83, 84, 95, 77, 69, 84, 72, 79, 68>>

\* '/'
Slash == 47

\* The string a zero-initialised char array holds: its bytes before the first NUL.
c_str(buf) ==
    LET nul == {i \in 1 .. Len(buf) : buf[i] = 0}
    IN IF nul = {} THEN buf
       ELSE SubSeq(buf, 1, (CHOOSE i \in nul : \A j \in nul : i <= j) - 1)

\* The first buf_size bytes of the first iovec of msg, <<>> on failure.
read_msghdr_data(msg, iov, buf_size) ==
    IF msg = 0 \/ buf_size = 0 THEN <<>>
    ELSE IF Len(iov) < buf_size THEN <<>>
    ELSE SubSeq(iov, 1, buf_size)

kprobe_unix_stream_recvmsg(m, c) ==
    LET key == get_key(c.pid, c.tid)
        msg_ptr == c.arg.msg
    IN [m EXCEPT !.recvmsg_args = bpf_map_update_elem(@, key, msg_ptr, MAX_ENTRIES)]

\* params[k] of u8 params[FCGI_PARAMS_SCAN_LEN] = {} after the read of the
\* scan_len bytes that follow the header; k is the C index.
fcgi_params(iov, scan_len, k) ==
    IF k < scan_len % 256 /\ FCGI_HEADER_LEN + k + 1 <= Len(iov)
    THEN iov[FCGI_HEADER_LEN + k + 1] ELSE 0

fcgi_name_at(iov, scan_len, i, name) ==
    /\ fcgi_params(iov, scan_len, i) = name[1]
    /\ \A k \in 2 .. Len(name) : fcgi_params(iov, scan_len, i + k - 1) = name[k]

\* The REQUEST_URI branch of the scan: the bytes copied into e->target, or
\* found = FALSE.
fcgi_scan_uri(iov, scan_len) ==
    LET starts(i) == {j \in i + 11 .. FCGI_PARAMS_SCAN_LEN - 2 :
                         fcgi_params(iov, scan_len, j) = Slash}
        hits == {i \in 0 .. FCGI_PARAMS_SCAN_LEN - 18 :
                    fcgi_name_at(iov, scan_len, i, REQUEST_URI) /\ starts(i) # {}}
    IN IF hits = {} THEN [found |-> FALSE, buf |-> <<>>]
       ELSE LET i == CHOOSE x \in hits : \A y \in hits : x <= y
                j == CHOOSE x \in starts(i) : \A y \in starts(i) : x <= y
                copy == IF FCGI_PARAMS_SCAN_LEN - j >= MAX_STRING_LEN
                        THEN MAX_STRING_LEN - 1
                        ELSE FCGI_PARAMS_SCAN_LEN - j
            IN [found |-> TRUE,
                buf |-> [k \in 1 .. copy % MAX_STRING_LEN |->
                            fcgi_params(iov, scan_len, j + k - 1)]]

\* The REQUEST_METHOD branch of the scan: the bytes copied into e->details.
fcgi_scan_method(iov, scan_len) ==
    LET alpha(b) == (b >= 65 /\ b <= 90) \/ (b >= 97 /\ b <= 122)
        starts(i) == {j \in i + 14 .. Min(FCGI_PARAMS_SCAN_LEN - 1, i + 19) :
                         alpha(fcgi_params(iov, scan_len, j))}
        hits == {i \in 0 .. FCGI_PARAMS_SCAN_LEN - 18 :
                    fcgi_name_at(iov, scan_len, i, REQUEST_METHOD) /\ starts(i) # {}}
    IN IF hits = {} THEN [found |-> FALSE, buf |-> <<>>]
       ELSE LET i == CHOOSE x \in hits : \A y \in hits : x <= y
                j == CHOOSE x \in starts(i) : \A y \in starts(i) : x <= y
                copy == IF j + 15 > FCGI_PARAMS_SCAN_LEN
                        THEN FCGI_PARAMS_SCAN_LEN - j ELSE 15
            IN [found |-> TRUE,
                buf |-> [k \in 1 .. copy % 16 |->
                            fcgi_params(iov, scan_len, j + k - 1)]]

\* c.arg.iov is the buffer as the completed recvmsg left it.
kretprobe_unix_stream_recvmsg(m, c) ==
    LET pid == c.pid
        tid == c.tid
        key == get_key(pid, tid)
    IN
    IF ~Has(m.recvmsg_args, key) THEN m
    ELSE
      LET msg_ptr == m.recvmsg_args[key]
          m0 == [m EXCEPT !.recvmsg_args = bpf_map_delete_elem(@, key)]
          hdr == read_msghdr_data(msg_ptr, c.arg.iov, FCGI_HEADER_LEN)
      IN
      IF c.rc <= 0 THEN m0
      ELSE IF hdr = <<>> THEN m0
      ELSE IF hdr[1] # FCGI_VERSION_1 THEN m0
      ELSE IF hdr[2] # FCGI_PARAMS THEN m0
      ELSE
        LET request_id == hdr[3] * 256 + hdr[4]
            content_len == hdr[5] * 256 + hdr[6]
            req_key == XOR(get_key(pid, tid), request_id)
            scan_len == Min(content_len, FCGI_PARAMS_SCAN_LEN)
            uri == fcgi_scan_uri(c.arg.iov, scan_len)
            method == fcgi_scan_method(c.arg.iov, scan_len)
        IN
        IF content_len = 0 THEN m0
        ELSE IF ~get_event_buf(c) THEN m0
        ELSE IF ~uri.found /\ ~method.found THEN m0
        ELSE
          LET target == IF uri.found
                        THEN c_str(SubSeq(uri.buf, 1, Min(Len(uri.buf), MAX_STRING_LEN - 1)))
                        ELSE <<>>
              details == IF method.found
                         THEN c_str(SubSeq(method.buf, 1, Min(Len(method.buf), 15)))
                         ELSE <<>>
              req == [start_ns |-> c.now,
                      uri |-> bpf_probe_read_str(target, MAX_STRING_LEN),
                      method |-> bpf_probe_read_str(details, FCGI_METHOD_LEN)]
              m1 == [m0 EXCEPT !.fastcgi_reqs =
                         bpf_map_update_elem(@, req_key, req, MAX_ENTRIES)]
              e == [ZeroEvent EXCEPT !.timestamp = req.start_ns, !.pid = pid,
                        !.type = "EVENT_FASTCGI_REQUEST", !.latency_ns = 0,
                        !.error = 0, !.bytes = 0, !.tcp_state = 0,
                        !.target = target, !.details = details]
          IN bpf_ringbuf_output(m1, c, e)

\* The mutation of kprobe_unix_stream_sendmsg that keeps the saved request.
kprobe_unix_stream_sendmsg_keep(m, c) ==
    LET hdr == read_msghdr_data(c.arg.msg, c.arg.iov, FCGI_HEADER_LEN + 8) IN
    IF hdr = <<>> THEN m
    ELSE IF hdr[1] # FCGI_VERSION_1 \/ hdr[2] # FCGI_END_REQUEST THEN m
    ELSE
      LET req_key == XOR(get_key(c.pid, c.tid), hdr[3] * 256 + hdr[4]) IN
      IF ~Has(m.fastcgi_reqs, req_key) THEN m
      ELSE IF ~get_event_buf(c) THEN m
      ELSE
        LET req == m.fastcgi_reqs[req_key]
            e == [ZeroEvent EXCEPT !.timestamp = c.now, !.pid = c.pid,
                      !.type = "EVENT_FASTCGI_RESPONSE",
                      !.latency_ns = calc_latency(req.start_ns, c.now),
                      !.target = req.uri, !.details = req.method]
        IN submit(m, c, c.pid, c.tid, e)

kprobe_unix_stream_sendmsg(m, c) ==
    LET pid == c.pid
        tid == c.tid
        hdr == read_msghdr_data(c.arg.msg, c.arg.iov, FCGI_HEADER_LEN + 8)
    IN
    IF hdr = <<>> THEN m
    ELSE IF hdr[1] # FCGI_VERSION_1 \/ hdr[2] # FCGI_END_REQUEST THEN m
    ELSE
      LET request_id == hdr[3] * 256 + hdr[4]
          req_key == XOR(get_key(pid, tid), request_id)
      IN
      IF ~Has(m.fastcgi_reqs, req_key) THEN m
      ELSE
        LET req == m.fastcgi_reqs[req_key]
            \* (s32)app_status, app_status the big-endian u32 of hdr[8..11]
            app_status == (IF hdr[9] >= 128 THEN hdr[9] - 256 ELSE hdr[9]) * 16777216
                            + hdr[10] * 65536 + hdr[11] * 256 + hdr[12]
        IN
        IF ~get_event_buf(c)
        THEN [m EXCEPT !.fastcgi_reqs = bpf_map_delete_elem(@, req_key)]
        ELSE
          LET timestamp == c.now
              e == [ZeroEvent EXCEPT !.timestamp = timestamp, !.pid = pid,
                        !.type = "EVENT_FASTCGI_RESPONSE",
                        !.latency_ns = IF timestamp > req.start_ns
                                       THEN timestamp - req.start_ns ELSE 0,
                        !.error = app_status, !.bytes = 0, !.tcp_state = 0,
                        !.target = bpf_probe_read_str(req.uri, MAX_STRING_LEN),
                        !.details = bpf_probe_read_str(req.method, FCGI_METHOD_LEN)]
              m1 == [m EXCEPT !.fastcgi_reqs = bpf_map_delete_elem(@, req_key)]
          IN submit(m1, c, pid, tid, e)

----------------------------------------------------------------------------
\* grpc.c: the second probe on tcp_sendmsg, which looks for an HTTP/2 HEADERS
\* frame in the first iovec of a send to the gRPC port.

GRPC_DEFAULT_PORT == 50051

HTTP2_HEADERS == 1

GRPC_INSPECT_LEN == 50

HTTP2_FRAME_HDR == 9

\* a & b on unsigned integers
RECURSIVE BitAnd(_, _)
BitAnd(a, b) ==
    IF a = 0 \/ b = 0 THEN 0
    ELSE 2 * BitAnd(a \div 2, b \div 2) + (IF a % 2 = 1 /\ b % 2 = 1 THEN 1 ELSE 0)

\* c.arg: the sock's skc_dport (network byte order), the msghdr and the bytes
\* of its first iovec, whose iov_len is their number.
kprobe_grpc_tcp_sendmsg(m, c) ==
    IF c.arg.sk = 0 THEN m
    ELSE
      LET dport == bswap16(c.arg.skc_dport)
          iov == c.arg.iov
          read_len == IF Len(iov) < GRPC_INSPECT_LEN THEN Len(iov) ELSE GRPC_INSPECT_LEN
          nread == BitAnd(read_len, GRPC_INSPECT_LEN - 1)
          \* u8 buf[GRPC_INSPECT_LEN] = {} after the read of nread bytes
          buf(i) == IF i < nread THEN iov[i + 1] ELSE 0
          key == get_key(c.pid, c.tid)
          slashes == {i \in HTTP2_FRAME_HDR .. GRPC_INSPECT_LEN - 1 : buf(i) = Slash}
      IN
      IF dport # GRPC_DEFAULT_PORT THEN m
      ELSE IF c.arg.msg = 0 THEN m
      ELSE IF Len(iov) < HTTP2_FRAME_HDR THEN m
      ELSE IF buf(3) # HTTP2_HEADERS THEN m
      ELSE IF buf(0) = 80 /\ buf(1) = 82 /\ buf(2) = 73 THEN m
      ELSE IF slashes = {} THEN m
      ELSE
        LET path_start == CHOOSE i \in slashes : \A j \in slashes : i <= j
            stops == {i \in path_start .. GRPC_INSPECT_LEN - 1 :
                         buf(i) < 32 \/ buf(i) = 58 \/ buf(i) = 32}
            stop == IF stops = {} THEN GRPC_INSPECT_LEN
                    ELSE CHOOSE i \in stops : \A j \in stops : i <= j
            p == Min(stop - path_start, MAX_STRING_LEN - 1)
            path == [k \in 1 .. p |-> buf(path_start + k - 1)]
        IN IF p = 0 THEN m
           ELSE [m EXCEPT !.grpc_methods = bpf_map_update_elem(@, key, path, MAX_ENTRIES)]

----------------------------------------------------------------------------
\* The probes attached to each instrumented function (the SEC() annotations).

EntryProbe(f, m, c) ==
    CASE f = "tcp_v4_connect" -> kprobe_tcp_connect(m, c)
      [] f = "tcp_v6_connect" -> kprobe_tcp_v6_connect(m, c)
      [] f = "tcp_sendmsg" -> kprobe_tcp_sendmsg(m, c)
      [] f = "tcp_recvmsg" -> kprobe_tcp_recvmsg(m, c)
      [] f = "getaddrinfo" -> uprobe_getaddrinfo(m, c)
      [] f = "udp_sendmsg" -> kprobe_udp_sendmsg(m, c)
      [] f = "udp_recvmsg" -> kprobe_udp_recvmsg(m, c)
      [] f = "http_request" -> uprobe_http_request(m, c)
      [] f = "http_response" -> uprobe_http_response(m, c)
      [] f = "PQexec" -> uprobe_PQexec(m, c)
      [] f = "mysql_real_query" -> uprobe_mysql_real_query(m, c)
      [] f = "vfs_write" -> kprobe_vfs_write(m, c)
      [] f = "vfs_read" -> kprobe_vfs_read(m, c)
      [] f = "vfs_fsync" -> kprobe_vfs_fsync(m, c)
      [] f = "do_futex" -> kprobe_do_futex(m, c)
      [] f = "pthread_mutex_lock" -> uprobe_pthread_mutex_lock(m, c)
      [] f = "do_execveat_common" -> kprobe_do_execveat_common(m, c)
      [] f = "do_sys_openat2" -> kprobe_do_sys_openat2(m, c)
      [] f = "vfs_unlink" -> kprobe_vfs_unlink(m, c)
      [] f = "vfs_rename" -> kprobe_vfs_rename(m, c)
      [] f = "memcached_get" -> uprobe_memcached_get(m, c)
      [] f = "memcached_set" -> uprobe_memcached_set(m, c)
      [] f = "memcached_delete" -> uprobe_memcached_delete(m, c)
      [] f = "redisCommand" -> uprobe_redisCommand(m, c)
      [] f = "redisCommandArgv" -> uprobe_redisCommandArgv(m, c)
      [] f = "rd_kafka_topic_new" -> uprobe_rd_kafka_topic_new(m, c)
      [] f = "rd_kafka_produce" -> uprobe_rd_kafka_produce(m, c)
      [] f = "rd_kafka_consumer_poll" -> uprobe_rd_kafka_consumer_poll(m, c)

ExitProbe(f, m, c) ==
    CASE f = "tcp_v4_connect" -> kretprobe_tcp_connect(m, c)
      [] f = "tcp_v6_connect" -> kretprobe_tcp_v6_connect(m, c)
      [] f = "tcp_sendmsg" -> kretprobe_tcp_sendmsg(m, c)
      [] f = "tcp_recvmsg" -> kretprobe_tcp_recvmsg(m, c)
      [] f = "getaddrinfo" -> uretprobe_getaddrinfo(m, c)
      [] f = "udp_sendmsg" -> kretprobe_udp_sendmsg(m, c)
      [] f = "udp_recvmsg" -> kretprobe_udp_recvmsg(m, c)
      [] f = "http_request" -> uretprobe_http_request(m, c)
      [] f = "http_response" -> uretprobe_http_response(m, c)
      [] f = "PQexec" -> uretprobe_PQexec(m, c)
      [] f = "mysql_real_query" -> uretprobe_mysql_real_query(m, c)
      [] f = "vfs_write" -> kretprobe_vfs_write(m, c)
      [] f = "vfs_read" -> kretprobe_vfs_read(m, c)
      [] f = "vfs_fsync" -> kretprobe_vfs_fsync(m, c)
      [] f = "do_futex" -> kretprobe_do_futex(m, c)
      [] f = "pthread_mutex_lock" -> uretprobe_pthread_mutex_lock(m, c)
      [] f = "do_execveat_common" -> kretprobe_do_execveat_common(m, c)
      [] f = "do_sys_openat2" -> kretprobe_do_sys_openat2(m, c)
      [] f = "vfs_unlink" -> kretprobe_vfs_unlink(m, c)
      [] f = "vfs_rename" -> kretprobe_vfs_rename(m, c)
      [] f = "memcached_get" -> uretprobe_memcached_get(m, c)
      [] f = "memcached_set" -> uretprobe_memcached_set(m, c)
      [] f = "memcached_delete" -> uretprobe_memcached_delete(m, c)
      [] f = "redisCommand" -> uretprobe_redisCommand(m, c)
      [] f = "redisCommandArgv" -> uretprobe_redisCommandArgv(m, c)
      [] f = "rd_kafka_topic_new" -> uretprobe_rd_kafka_topic_new(m, c)
      [] f = "rd_kafka_produce" -> uretprobe_rd_kafka_produce(m, c)
      [] f = "rd_kafka_consumer_poll" -> uretprobe_rd_kafka_consumer_poll(m, c)

\* The side tables an entry probe of f writes for the calling thread's key.
SideTables(f) ==
    CASE f \in {"getaddrinfo"} -> {"dns_targets"}
      [] f \in {"http_request"} -> {"socket_conns"}
      [] f \in {"PQexec", "mysql_real_query"} -> {"db_queries"}
      [] f \in {"vfs_write", "vfs_read", "vfs_fsync"} -> {"file_paths"}
      [] f \in {"do_futex", "pthread_mutex_lock"} -> {"lock_targets"}
      [] f \in {"do_execveat_common", "do_sys_openat2", "vfs_unlink", "vfs_rename"}
           -> {"syscall_paths"}
      [] f \in {"memcached_get", "memcached_set", "memcached_delete"}
           -> {"memcached_ops", "proto_bytes"}
      [] f \in {"redisCommand", "redisCommandArgv"} -> {"redis_cmds"}
      [] f \in {"rd_kafka_produce"} -> {"redis_cmds", "proto_bytes"}
      [] f \in {"rd_kafka_topic_new"} -> {"kafka_topic_tmp"}
      [] OTHER -> {}

----------------------------------------------------------------------------
\* The traced process: threads that call the instrumented functions.

\* What a traced application calls: one library or one family of system calls.
Workloads ==
    { {"getaddrinfo"},
      {"tcp_v4_connect", "tcp_v6_connect"},
      {"tcp_sendmsg", "tcp_recvmsg"},
      {"udp_sendmsg", "udp_recvmsg"},
      {"http_request", "http_response"},
      {"PQexec", "mysql_real_query"},
      {"vfs_write", "vfs_read", "vfs_fsync"},
      {"do_futex", "pthread_mutex_lock"},
      {"do_execveat_common", "do_sys_openat2"},
      {"vfs_unlink", "vfs_rename"},
      {"memcached_get"}, {"memcached_set"}, {"memcached_delete"},
      {"redisCommand", "redisCommandArgv"},
      {"rd_kafka_topic_new", "rd_kafka_produce"},
      {"rd_kafka_topic_new", "rd_kafka_consumer_poll"} }

\* The instrumented kernel function a call of f runs on the calling thread
\* before it returns: the resolver and the client libraries send on a socket,
\* a contended mutex waits on its futex, write(2) on a socket is tcp_sendmsg.
Nested(f) ==
    CASE f = "getaddrinfo" -> {"udp_sendmsg"}
      [] f \in {"http_request", "PQexec", "mysql_real_query", "redisCommand",
                "redisCommandArgv", "memcached_get", "memcached_set",
                "memcached_delete", "rd_kafka_produce", "vfs_write"}
           -> {"tcp_sendmsg"}
      [] f \in {"http_response", "rd_kafka_consumer_poll", "vfs_read"} -> {"tcp_recvmsg"}
      [] f = "pthread_mutex_lock" -> {"do_futex"}
      [] f = "do_execveat_common" -> {"do_sys_openat2"}
      [] OTHER -> {}

\* A NULL pointer argument; x stands for what is never read.
Null(x) == [has_arg |-> FALSE, arg |-> x]

NoArg == Null(<<>>)

Arg(x) == [has_arg |-> TRUE, arg |-> x]

\* The argument the entry probe of f reads.
EntryArgs(f) ==
    CASE f = "getaddrinfo" -> {NoArg, Arg(<<"d", "b">>)}
      [] f = "http_request" -> {NoArg, Arg(<<"/", "v", "1">>)}
      [] f \in {"PQexec", "mysql_real_query"}
           -> {NoArg, Arg(<<"S", "E", "L", "E", "C", "T", " ", "1">>)}
      [] f \in {"vfs_write", "vfs_read", "vfs_fsync"}
           -> {Null([ret |-> 0, path |-> <<>>]), Arg([ret |-> -36, path |-> <<>>]),
               Arg([ret |-> 3, path |-> <<"/", "a">>])}
      [] f \in {"do_futex", "pthread_mutex_lock"} -> {Null(0), Arg(48879)}
      [] f \in {"do_execveat_common", "do_sys_openat2"}
           -> {NoArg, Arg(<<"/", "b", "i", "n">>)}
      [] f = "vfs_unlink"
           -> {Null([has_name |-> FALSE, name |-> <<>>]),
               Arg([has_name |-> FALSE, name |-> <<>>]),
               Arg([has_name |-> TRUE, name |-> <<"a">>])}
      [] f = "vfs_rename"
           -> {Null([old |-> [has_name |-> FALSE, name |-> <<>>],
                     new |-> [has_name |-> FALSE, name |-> <<>>]]),
               Arg([old |-> [has_name |-> TRUE, name |-> <<"a">>],
                    new |-> [has_name |-> TRUE, name |-> <<"b">>]])}
      [] f \in {"memcached_get", "memcached_delete"}
           -> {Null([key |-> <<>>, vlen |-> 0]), Arg([key |-> <<"k">>, vlen |-> 0])}
      [] f = "memcached_set"
           -> {Null([key |-> <<>>, vlen |-> 0]), Arg([key |-> <<"k">>, vlen |-> 0]),
               Arg([key |-> <<"k">>, vlen |-> 5]),
               Arg([key |-> <<"k">>, vlen |-> 2 * MAX_BYTES_THRESHOLD])}
      [] f = "redisCommand" -> {NoArg, Arg(<<"G", "E", "T", " ", "%", "s">>)}
      [] f = "redisCommandArgv"
           -> {Null([read_ok |-> FALSE, has_cmd |-> FALSE, cmd |-> <<>>]),
               Arg([read_ok |-> FALSE, has_cmd |-> FALSE, cmd |-> <<>>]),
               Arg([read_ok |-> TRUE, has_cmd |-> TRUE, cmd |-> <<"G", "E", "T">>])}
      [] f = "rd_kafka_topic_new" -> {NoArg, Arg(<<"t">>)}
      [] f = "rd_kafka_produce"
           -> {Arg([rkt |-> 8, len |-> 0]), Arg([rkt |-> 8, len |-> 5])}
      [] OTHER -> {NoArg}

\* What the exit probe of f reads through a pointer argument or return value.
ExitArgs(f) ==
    CASE f \in {"tcp_v4_connect", "tcp_v6_connect"}
           -> {Null([read_ok |-> FALSE, sin_family |-> 0, sin_port |-> 0,
                      s_addr |-> 0, read2_ok |-> FALSE])}
              \cup {Arg([read_ok |-> TRUE, sin_family |-> fam, sin_port |-> 36895,
                         s_addr |-> 16777226, read2_ok |-> r2]) :
                        fam \in {2, 10}, r2 \in BOOLEAN}
      [] f = "rd_kafka_consumer_poll"
           -> {Arg([err |-> 0, rkt |-> 8, len |-> 5])}
      [] OTHER -> {NoArg}

\* The value f returns: a pointer (0 is NULL) or a status / byte count.
Rets(f) ==
    IF f \in {"redisCommand", "redisCommandArgv", "rd_kafka_topic_new",
              "rd_kafka_consumer_poll"}
    THEN {0, 8}
    ELSE {-11, 0, 4096}

\* What the helpers called by a probe return in one invocation: whether the
\* scratch lookups and the ring-buffer reservation succeed, and what
\* bpf_get_stack returns.
HelperOutcomes ==
    {[e_ok |-> FALSE, sbuf_ok |-> FALSE, stack_sz |-> 0, ring_ok |-> FALSE]}
      \cup {[e_ok |-> TRUE, sbuf_ok |-> s.ok, stack_sz |-> s.sz, ring_ok |-> r] :
              s \in {[ok |-> FALSE, sz |-> 0], [ok |-> TRUE, sz |-> -14],
                     [ok |-> TRUE, sz |-> 16]},
              r \in BOOLEAN}

AllOk == [e_ok |-> TRUE, sbuf_ok |-> TRUE, stack_sz |-> 16, ring_ok |-> TRUE]

Ctx(t, ts, rc, a, h) ==
    [pid |-> Pid(t), tid |-> Tid(t), now |-> ts, rc |-> rc,
     has_arg |-> a.has_arg, arg |-> a.arg,
     e_ok |-> h.e_ok, sbuf_ok |-> h.sbuf_ok, stack_sz |-> h.stack_sz,
     ring_ok |-> h.ring_ok]

\* The user-space consumer keeps up: the ring buffer and the stack traces of
\* earlier invocations have been read when the next probe runs.
Drain(m) == [m EXCEPT !.events = <<>>, !.stack_traces = EmptyMap]

EmptyMaps ==
    [events |-> <<>>, start_times |-> EmptyMap, dns_targets |-> EmptyMap,
     socket_conns |-> EmptyMap, stack_traces |-> EmptyMap,
     lock_targets |-> EmptyMap, db_queries |-> EmptyMap,
     syscall_paths |-> EmptyMap, file_paths |-> EmptyMap,
     redis_cmds |-> EmptyMap, memcached_ops |-> EmptyMap,
     proto_bytes |-> EmptyMap, kafka_topic_names |-> EmptyMap,
     kafka_topic_tmp |-> EmptyMap, pool_states |-> EmptyMap,
     pool_acquire_times |-> EmptyMap, pool_db_types |-> EmptyMap,
     cgroup_alerts |-> EmptyMap, alert_thresholds |-> <<0, 0, 0>>,
     recvmsg_args |-> EmptyMap, fastcgi_reqs |-> EmptyMap,
     grpc_methods |-> EmptyMap]

Fields ==
    {"timestamp", "pid", "type", "latency_ns", "error", "bytes", "tcp_state",
     "stack_key", "target", "details"}

CPUs == 1 .. NumCPUs

\* event_buf and stack_buf hold one record each, at index 0.
NoScratch ==
    [event_buf |-> ZeroEvent, wrote |-> [f \in Fields |-> 0],
     stack_buf |-> [nr |-> 0, by |-> 0],
     pc |-> [c \in CPUs |-> [at |-> "idle", fd |-> 0]]]

NoPoolStats == [transitions |-> 0, acquires |-> 0, drops |-> 0]

\* The record of one invocation: had_start and latency are what the exit
\* probe's lookup of start_times[K] finds on entry to the probe.
Invocation(kind, t, f, m, ts, h) ==
    LET key == get_key(Pid(t), Tid(t)) IN
    [kind |-> kind, tid |-> Tid(t), f |-> f,
     had_start |-> Has(m.start_times, key),
     latency |-> IF Has(m.start_times, key)
                 THEN calc_latency(m.start_times[key], ts) ELSE 0,
     e_ok |-> h.e_ok, ring_ok |-> h.ring_ok]

Init ==
    /\ maps = EmptyMaps
    /\ now = 0
    /\ calls = [t \in Threads |-> <<>>]
    /\ workload \in Workloads
    /\ last = [kind |-> "none", tid |-> 0, f |-> "", had_start |-> FALSE,
               latency |-> 0, e_ok |-> TRUE, ring_ok |-> TRUE]
    /\ pool_stats = [t \in Threads |-> NoPoolStats]
    /\ scratch = NoScratch

\* Thread t calls f, from the application or from inside the call it is in;
\* the entry probe of f runs.
EnterCall(t) ==
    \E f \in (IF calls[t] = <<>> THEN workload
              ELSE IF Len(calls[t]) = 1 THEN Nested(calls[t][1]) ELSE {}) :
      \E a \in EntryArgs(f) :
        /\ maps' = EntryProbe(f, Drain(maps), Ctx(t, now, 0, a, AllOk))
        /\ calls' = [calls EXCEPT ![t] = Append(@, f)]
        /\ last' = Invocation("entry", t, f, maps, now, AllOk)
        /\ UNCHANGED <<now, workload, pool_stats, scratch>>

\* The innermost call of thread t returns; the exit probe of its function runs.
ReturnCall(t) ==
    /\ calls[t] # <<>>
    /\ LET f == calls[t][Len(calls[t])] IN
       \E rc \in Rets(f), a \in ExitArgs(f), h \in HelperOutcomes :
         /\ maps' = ExitProbe(f, Drain(maps), Ctx(t, now, rc, a, h))
         /\ calls' = [calls EXCEPT ![t] = SubSeq(@, 1, Len(@) - 1)]
         /\ last' = Invocation("exit", t, f, maps, now, h)
         /\ UNCHANGED <<now, workload, pool_stats, scratch>>

Tick ==
    /\ now < MaxTicks * TickNs
    /\ now' = now + TickNs
    /\ UNCHANGED <<maps, calls, workload, last, pool_stats, scratch>>

Next ==
    \/ \E t \in Threads : EnterCall(t)
    \/ \E t \in Threads : ReturnCall(t)
    \/ Tick

Spec == Init /\ [][Next]_vars

----------------------------------------------------------------------------
\* The connection-pool engine: threads that call the client libraries.

PoolEntryProbe(f, m, c) ==
    CASE f = "sqlite3_prepare_v2" -> uprobe_sqlite3_prepare_v2(m, c)
      [] f = "sqlite3_prepare" -> uprobe_sqlite3_prepare(m, c)
      [] f = "sqlite3_prepare16" -> uprobe_sqlite3_prepare16(m, c)
      [] f = "sqlite3_prepare16_v2" -> uprobe_sqlite3_prepare16_v2(m, c)
      [] f = "sqlite3_step" -> uprobe_sqlite3_step(m, c)
      [] f = "PQconnectStart" -> uprobe_PQconnectStart(m, c)
      [] f = "PQexec_pool" -> uprobe_PQexec_pool(m, c)
      [] f = "mysql_real_connect" -> uprobe_mysql_real_connect(m, c)
      [] f = "mysql_real_query_pool" -> uprobe_mysql_real_query_pool(m, c)
      [] OTHER -> m

PoolExitProbe(f, m, c) ==
    CASE f = "sqlite3_finalize" -> uretprobe_sqlite3_finalize(m, c)
      [] f = "sqlite3_step" -> uretprobe_sqlite3_step(m, c)
      [] f = "PQfinish" -> uretprobe_PQfinish(m, c)
      [] f = "mysql_close" -> uretprobe_mysql_close(m, c)
      [] OTHER -> m

PoolWorkloads ==
    { {"sqlite3_prepare_v2", "sqlite3_prepare", "sqlite3_prepare16",
       "sqlite3_prepare16_v2", "sqlite3_finalize", "sqlite3_step"},
      {"PQconnectStart", "PQfinish", "PQexec_pool"},
      {"mysql_real_connect", "mysql_close", "mysql_real_query_pool"} }

ReleaseFuncs == {"sqlite3_finalize", "PQfinish", "mysql_close"}

AcquireFuncs ==
    {"sqlite3_prepare_v2", "sqlite3_prepare", "sqlite3_prepare16",
     "sqlite3_prepare16_v2", "PQconnectStart", "mysql_real_connect"}

ExhaustionFuncs == {"sqlite3_step", "PQexec_pool", "mysql_real_query_pool"}

\* The record of one invocation of a pool probe: had_acquire and wait are
\* what the lookup of pool_acquire_times[K] finds on entry to the probe.
PoolInvocation(kind, t, f, m, ts, h) ==
    LET key == get_pool_key(Pid(t), Tid(t)) IN
    [kind |-> kind, tid |-> Tid(t), f |-> f,
     had_acquire |-> Has(m.pool_acquire_times, key),
     wait |-> IF Has(m.pool_acquire_times, key)
              THEN ts - m.pool_acquire_times[key] ELSE 0,
     e_ok |-> h.e_ok, ring_ok |-> h.ring_ok]

\* The pool probes take no stack: what matters of the helpers is whether the
\* scratch record was found and whether the ring buffer took the record.
PoolHelperOutcomes == {h \in HelperOutcomes : h.e_ok => h.sbuf_ok /\ h.stack_sz > 0}

InUse(m, key) == Has(m.pool_states, key) /\ m.pool_states[key].in_use = 1

\* The bookkeeping of one invocation on thread t that took the maps from m
\* to m2: whether pool_states[K].in_use went from 0 (or no state) to 1, how
\* many EVENT_POOL_ACQUIRE records the ring buffer accepted, and whether the
\* record of a transition was lost for want of the scratch record or of room
\* in the ring buffer.
Account(st, t, m, m2, h) ==
    LET key == get_pool_key(Pid(t), Tid(t))
        flipped == ~InUse(m, key) /\ InUse(m2, key)
        emitted == Cardinality({i \in 1 .. Len(m2.events) :
                                   m2.events[i].type = "EVENT_POOL_ACQUIRE"})
    IN [transitions |-> st.transitions + (IF flipped THEN 1 ELSE 0),
        acquires |-> st.acquires + emitted,
        drops |-> st.drops
                   + (IF flipped /\ (~h.e_ok \/ ~h.ring_ok) THEN 1 ELSE 0)]

\* The transitions of the keys of threads 1 .. n together.
RECURSIVE TotalTransitions(_, _)
TotalTransitions(st, n) ==
    IF n = 0 THEN 0 ELSE st[n].transitions + TotalTransitions(st, n - 1)

InitPool ==
    /\ maps = EmptyMaps
    /\ now = 0
    /\ calls = [t \in Threads |-> <<>>]
    /\ workload \in PoolWorkloads
    /\ last = [kind |-> "none", tid |-> 0, f |-> "", had_acquire |-> FALSE,
               wait |-> 0, e_ok |-> TRUE, ring_ok |-> TRUE]
    /\ pool_stats = [t \in Threads |-> NoPoolStats]
    /\ scratch = NoScratch

\* Thread t calls a function of the client library; its entry probe, if it
\* has one, runs.
PoolEnter(t) ==
    /\ calls[t] = <<>>
    /\ \E f \in workload, h \in PoolHelperOutcomes :
         /\ f \in AcquireFuncs => TotalTransitions(pool_stats, NumThreads) < MaxPoolAcquires
         /\ LET m2 == PoolEntryProbe(f, Drain(maps), Ctx(t, now, 0, NoArg, h)) IN
            /\ maps' = m2
            /\ pool_stats' = [pool_stats EXCEPT ![t] = Account(@, t, maps, m2, h)]
         /\ calls' = [calls EXCEPT ![t] = <<f>>]
         /\ last' = PoolInvocation("entry", t, f, maps, now, h)
         /\ UNCHANGED <<now, workload, scratch>>

\* The call of thread t returns; its exit probe, if it has one, runs.
PoolReturn(t) ==
    /\ calls[t] # <<>>
    /\ \E h \in PoolHelperOutcomes :
         LET f == calls[t][1]
             m2 == PoolExitProbe(f, Drain(maps), Ctx(t, now, 0, NoArg, h))
         IN /\ maps' = m2
            /\ pool_stats' = [pool_stats EXCEPT ![t] = Account(@, t, maps, m2, h)]
            /\ calls' = [calls EXCEPT ![t] = <<>>]
            /\ last' = PoolInvocation("exit", t, f, maps, now, h)
            /\ UNCHANGED <<now, workload, scratch>>

PoolTick ==
    /\ now < MaxPoolTicks * PoolTickNs
    /\ now' = now + PoolTickNs
    /\ UNCHANGED <<maps, calls, workload, last, pool_stats, scratch>>

NextPool ==
    \/ \E t \in Threads : PoolEnter(t)
    \/ \E t \in Threads : PoolReturn(t)
    \/ PoolTick

SpecPool == InitPool /\ [][NextPool]_vars

----------------------------------------------------------------------------
\* The cgroup utilization engine: cgroups are evaluated one after another.

Cgroups == 1 .. NumCgroups

\* The thresholds the loader may have written at startup: none (the defaults
\* 80/90/95 apply) or warn 50, crit 75, emerg 90.
ThresholdSettings == {<<0, 0, 0>>, <<50, 75, 90>>}

Utilizations == {0, 9, 50, 79, 80, 89, 90, 94, 95, 100}

ResourceEvaluation(cg, u, m, h) ==
    [kind |-> "alert", cgroup_id |-> cg, utilization |-> u,
     level |-> check_alert_threshold(m, u), e_ok |-> h.e_ok, ring_ok |-> h.ring_ok]

InitRes ==
    /\ \E th \in ThresholdSettings :
         maps = [EmptyMaps EXCEPT !.alert_thresholds = th]
    /\ now = 0
    /\ calls = [t \in Threads |-> <<>>]
    /\ workload = {}
    /\ last = [kind |-> "none", cgroup_id |-> 0, utilization |-> 0, level |-> 0,
               e_ok |-> TRUE, ring_ok |-> TRUE]
    /\ pool_stats = [t \in Threads |-> NoPoolStats]
    /\ scratch = NoScratch

\* The engine evaluates cgroup cg, whose usage is u percent of its limit of
\* 100, and raises the alert.
EvaluateCgroup(cg) ==
    \E u \in Utilizations, rt \in {RESOURCE_CPU, RESOURCE_MEMORY, RESOURCE_IO},
       h \in PoolHelperOutcomes :
        /\ maps' = emit_resource_alert(Drain(maps), Ctx(1, now, 0, NoArg, h),
                                       cg, rt, u, 100, u)
        /\ last' = ResourceEvaluation(cg, u, maps, h)
        /\ UNCHANGED <<now, calls, workload, pool_stats, scratch>>

NextRes == \E cg \in Cgroups : EvaluateCgroup(cg)

SpecRes == InitRes /\ [][NextRes]_vars

----------------------------------------------------------------------------
\* The scheduler of one CPU: the tasks are the threads, pid 0 is the idle
\* task, and calls[t] tells whether thread t has the CPU.

OnCpu == <<"on_cpu">>

Running == IF \E t \in Threads : calls[t] = OnCpu
           THEN CHOOSE t \in Threads : calls[t] = OnCpu
           ELSE 0

\* What a switch finds: the entry of the task that leaves the CPU.
SwitchInvocation(prev, next, m, ts, h) ==
    LET key == get_key(prev, 0) IN
    [kind |-> "switch", prev_pid |-> prev, next_pid |-> next, ts |-> ts,
     had_start |-> prev > 0 /\ Has(m.start_times, key),
     block_time |-> IF prev > 0 /\ Has(m.start_times, key)
                    THEN calc_latency(m.start_times[key], ts) ELSE 0,
     e_ok |-> h.e_ok, ring_ok |-> h.ring_ok]

InitSched ==
    /\ maps = EmptyMaps
    /\ now = 0
    /\ calls = [t \in Threads |-> <<>>]
    /\ workload = {}
    /\ last = [kind |-> "none", prev_pid |-> 0, next_pid |-> 0, ts |-> 0,
               had_start |-> FALSE, block_time |-> 0, e_ok |-> TRUE,
               ring_ok |-> TRUE]
    /\ pool_stats = [t \in Threads |-> NoPoolStats]
    /\ scratch = NoScratch

\* The CPU goes from the running task to another one.
SchedSwitch(next) ==
    /\ next # Running
    /\ \E h \in HelperOutcomes :
         /\ maps' = tracepoint_sched_switch(Drain(maps), Ctx(1, now, 0, NoArg, h),
                                            Running, next)
         /\ last' = SwitchInvocation(Running, next, maps, now, h)
    /\ calls' = [t \in Threads |-> IF t = next THEN OnCpu ELSE <<>>]
    /\ UNCHANGED <<now, workload, pool_stats, scratch>>

SchedTick ==
    /\ now < MaxSchedTicks * SchedTickNs
    /\ now' = now + SchedTickNs
    /\ UNCHANGED <<maps, calls, workload, last, pool_stats, scratch>>

NextSched ==
    \/ \E next \in {0} \cup Threads : SchedSwitch(next)
    \/ SchedTick

SpecSched == InitSched /\ [][NextSched]_vars

----------------------------------------------------------------------------
\* A FastCGI application: its threads receive records from the web server on
\* a unix socket and send records back.

\* One name-value pair in the FastCGI encoding (lengths below 128).
fcgi_nv(pair) == <<Len(pair[1]), Len(pair[2])>> \o pair[1] \o pair[2]

RECURSIVE fcgi_nv_body(_)
fcgi_nv_body(pairs) ==
    IF pairs = <<>> THEN <<>>
    ELSE fcgi_nv(Head(pairs)) \o fcgi_nv_body(Tail(pairs))

\* A record: the 8-byte header {version, type, requestId, contentLength,
\* paddingLength, reserved} and the body.
fcgi_record(type, request_id, body) ==
    <<FCGI_VERSION_1, type, request_id \div 256, request_id % 256,
      Len(body) \div 256, Len(body) % 256, 0, 0>> \o body

\* "/p" and "/index.php"; "GET" and "POST".
FcgiUris == {<<47, 112>>, <<47, 105, 110, 100, 101, 120, 46, 112, 104, 112>>}

FcgiMethods == {<<71, 69, 84>>, <<80, 79, 83, 84>>}

\* "SCRIPT_NAME" = "x"
FcgiOtherPair == <<<<83, 67, 82, 73, 80, 84, 95, 78, 65, 77, 69>>, <<120>>>>

\* The name-value lists of the PARAMS records the server sends.
FcgiParamLists ==
    {<<<<REQUEST_URI, <<47, 112>>>>, <<REQUEST_METHOD, <<71, 69, 84>>>>>>,
     <<<<REQUEST_METHOD, <<80, 79, 83, 84>>>>, <<REQUEST_URI, <<47, 112>>>>,
       FcgiOtherPair>>,
     <<<<REQUEST_URI, <<47, 105, 110, 100, 101, 120, 46, 112, 104, 112>>>>>>,
     <<FcgiOtherPair>>}

FcgiRequestId == 1

\* appStatus 0 and -1, protocolStatus 0
FcgiEndBodies == {<<0, 0, 0, 0, 0, 0, 0, 0>>, <<255, 255, 255, 255, 0, 0, 0, 0>>}

\* What a thread sends: END_REQUEST records, one cut short of its body, and
\* a STDOUT record.
FcgiSent ==
    {fcgi_record(FCGI_END_REQUEST, FcgiRequestId, b) : b \in FcgiEndBodies}
      \cup {fcgi_record(FCGI_END_REQUEST, FcgiRequestId, <<>>),
            fcgi_record(6, FcgiRequestId, <<111, 107, 0, 0, 0, 0, 0, 0>>)}

NoFcgiReq == [start_ns |-> 0, uri |-> <<>>, method |-> <<>>]

\* What one probe invocation is given: the record and, for a PARAMS record,
\* its name-value list.
FcgiInvocation(kind, t, ts, rc, iov, pairs, h) ==
    [kind |-> kind, tid |-> Tid(t), ts |-> ts, rc |-> rc, iov |-> iov,
     pairs |-> pairs, req_key |-> 0, had_req |-> FALSE, req |-> NoFcgiReq,
     e_ok |-> h.e_ok, ring_ok |-> h.ring_ok]

\* What the sendmsg probe finds: the request saved under the record's key.
FcgiSendInvocation(t, m, ts, iov, h) ==
    LET req_key == XOR(get_key(Pid(t), Tid(t)), iov[3] * 256 + iov[4])
    IN [FcgiInvocation("send", t, ts, 0, iov, <<>>, h)
          EXCEPT !.req_key = req_key,
                 !.had_req = Has(m.fastcgi_reqs, req_key),
                 !.req = IF Has(m.fastcgi_reqs, req_key)
                         THEN m.fastcgi_reqs[req_key] ELSE NoFcgiReq]

InRecvmsg == <<"unix_stream_recvmsg">>

InitFcgi ==
    /\ maps = EmptyMaps
    /\ now = 0
    /\ calls = [t \in Threads |-> <<>>]
    /\ workload = {}
    /\ last = FcgiInvocation("none", 1, 0, 0, <<>>, <<>>, AllOk)
    /\ pool_stats = [t \in Threads |-> NoPoolStats]
    /\ scratch = NoScratch

FcgiRecvEnter(t) ==
    /\ calls[t] = <<>>
    /\ calls' = [calls EXCEPT ![t] = InRecvmsg]
    /\ maps' = kprobe_unix_stream_recvmsg(Drain(maps),
                   Ctx(t, now, 0, Arg([msg |-> 1, iov |-> <<>>]), AllOk))
    /\ last' = FcgiInvocation("recv_enter", t, now, 0, <<>>, <<>>, AllOk)
    /\ UNCHANGED <<now, workload, pool_stats, scratch>>

\* recvmsg returns the length of the record it put into the buffer, or 0.
FcgiRecvReturn(t) ==
    /\ calls[t] = InRecvmsg
    /\ calls' = [calls EXCEPT ![t] = <<>>]
    /\ \E pairs \in FcgiParamLists, got \in BOOLEAN, h \in PoolHelperOutcomes :
         LET iov == fcgi_record(FCGI_PARAMS, FcgiRequestId, fcgi_nv_body(pairs))
             rc == IF got THEN Len(iov) ELSE 0
         IN /\ maps' = kretprobe_unix_stream_recvmsg(Drain(maps),
                           Ctx(t, now, rc, Arg([msg |-> 1, iov |-> iov]), h))
            /\ last' = FcgiInvocation("recv_return", t, now, rc, iov, pairs, h)
    /\ UNCHANGED <<now, workload, pool_stats, scratch>>

FcgiSend(t) ==
    /\ \E iov \in FcgiSent, h \in PoolHelperOutcomes :
         /\ maps' = kprobe_unix_stream_sendmsg(Drain(maps),
                        Ctx(t, now, 0, Arg([msg |-> 1, iov |-> iov]), h))
         /\ last' = FcgiSendInvocation(t, maps, now, iov, h)
    /\ UNCHANGED <<now, calls, workload, pool_stats, scratch>>

FcgiTick ==
    /\ now < MaxFcgiTicks * FcgiTickNs
    /\ now' = now + FcgiTickNs
    /\ UNCHANGED <<maps, calls, workload, last, pool_stats, scratch>>

NextFcgi ==
    \/ \E t \in Threads : FcgiRecvEnter(t)
    \/ \E t \in Threads : FcgiRecvReturn(t)
    \/ \E t \in Threads : FcgiSend(t)
    \/ FcgiTick

SpecFcgi == InitFcgi /\ [][NextFcgi]_vars

----------------------------------------------------------------------------
\* A gRPC client: its threads send HTTP/2 frames over TCP.  Both probes on
\* tcp_sendmsg run when a thread enters it.

\* A frame: the 9-byte header {length, type, flags, stream id} and the payload.
http2_frame(type, payload) ==
    <<Len(payload) \div 65536, (Len(payload) \div 256) % 256, Len(payload) % 256,
      type, 4, 0, 0, 0, 1>> \o payload

\* "/svc/Hello"
GrpcPath == <<47, 115, 118, 99, 47, 72, 101, 108, 108, 111>>

\* The header block: :method POST, :scheme http, then :path as a literal of
\* ten bytes.
HpackPath == <<131, 134, 68, 10>> \o GrpcPath

\* Header fields that follow the path, 10 and 26 bytes long; the first byte
\* is a literal-field opcode.
HpackRest ==
    {<<>>,
     <<0, 2, 116, 101, 8, 116, 114, 97, 105, 108>>,
     <<0, 2, 116, 101, 8, 116, 114, 97, 105, 108, 101, 114, 115, 0, 1, 120,
       9, 97, 98, 99, 100, 101, 102, 103, 104, 105>>}

\* The first iovec of a send: HEADERS frames of 23, 33 and 49 bytes, a DATA
\* frame, and the client connection preface "PRI * HTTP/2.0...".
GrpcSent ==
    {http2_frame(HTTP2_HEADERS, HpackPath \o r) : r \in HpackRest}
      \cup {http2_frame(0, <<0, 0, 0, 0, 2, 47, 120>>),
            <<80, 82, 73, 32, 42, 32, 72, 84, 84, 80, 47, 50, 46, 48, 13, 10,
              13, 10, 83, 77, 13, 10, 13, 10>>}

GrpcPorts == {GRPC_DEFAULT_PORT, 443}

\* What one probe invocation finds: the method stored under the thread's key
\* and whether the entry probe left a start time.
GrpcInvocation(kind, t, m, dport, iov, h) ==
    LET key == get_key(Pid(t), Tid(t)) IN
    [kind |-> kind, tid |-> Tid(t), dport |-> dport, iov |-> iov,
     had_start |-> Has(m.start_times, key),
     had_method |-> Has(m.grpc_methods, key),
     method |-> IF Has(m.grpc_methods, key) THEN m.grpc_methods[key] ELSE <<>>,
     e_ok |-> h.e_ok, ring_ok |-> h.ring_ok]

InTcpSendmsg == <<"tcp_sendmsg">>

InitGrpc ==
    /\ maps = EmptyMaps
    /\ now = 0
    /\ calls = [t \in Threads |-> <<>>]
    /\ workload = {}
    /\ last = GrpcInvocation("none", 1, EmptyMaps, 0, <<>>, AllOk)
    /\ pool_stats = [t \in Threads |-> NoPoolStats]
    /\ scratch = NoScratch

GrpcSendEnter(t) ==
    /\ calls[t] = <<>>
    /\ calls' = [calls EXCEPT ![t] = InTcpSendmsg]
    /\ \E iov \in GrpcSent, port \in GrpcPorts :
         LET c == Ctx(t, now, 0, Arg([sk |-> 1, skc_dport |-> bswap16(port),
                                      msg |-> 1, iov |-> iov]), AllOk)
         IN /\ maps' = kprobe_grpc_tcp_sendmsg(kprobe_tcp_sendmsg(Drain(maps), c), c)
            /\ last' = GrpcInvocation("send_enter", t, maps, port, iov, AllOk)
    /\ UNCHANGED <<now, workload, pool_stats, scratch>>

GrpcSendReturn(t) ==
    /\ calls[t] = InTcpSendmsg
    /\ calls' = [calls EXCEPT ![t] = <<>>]
    /\ \E rc \in {-32, 23}, h \in PoolHelperOutcomes :
         /\ maps' = kretprobe_tcp_sendmsg(Drain(maps), Ctx(t, now, rc, NoArg, h))
         /\ last' = GrpcInvocation("send_return", t, maps, 0, <<>>, h)
    /\ UNCHANGED <<now, workload, pool_stats, scratch>>

GrpcTick ==
    /\ now < MaxGrpcTicks * TickNs
    /\ now' = now + TickNs
    /\ UNCHANGED <<maps, calls, workload, last, pool_stats, scratch>>

NextGrpc ==
    \/ \E t \in Threads : GrpcSendEnter(t)
    \/ \E t \in Threads : GrpcSendReturn(t)
    \/ GrpcTick

SpecGrpc == InitGrpc /\ [][NextGrpc]_vars

----------------------------------------------------------------------------
\* A TCP client: its threads call tcp_v4_connect with an IPv4 or another
\* socket address.

\* Addresses a.b.c.d and ports of the peers.  The 32-bit address must fit the
\* model's integers in both byte orders, so a and d stay below 128.
PeerAddrs == {<<10, 0, 0, 1>>, <<127, 255, 255, 127>>, <<100, 200, 9, 99>>}

PeerPorts == {0, 443, 65535}

\* htons and htonl on a little-endian host.
htons(p) == bswap16(p)

htonl(ip) == bswap32(ip)

\* What the exit probe finds behind its second argument register: nothing, an
\* unreadable address, or a sockaddr of family AF_INET (2) or AF_INET6 (10);
\* and whether its second bpf_probe_read_user, of the copy's s_addr, succeeds.
Sockaddrs ==
    {[has_arg |-> FALSE, read_ok |-> FALSE, sin_family |-> 0, ip |-> <<0, 0, 0, 0>>,
      port |-> 0, read2_ok |-> FALSE],
     [has_arg |-> TRUE, read_ok |-> FALSE, sin_family |-> 0, ip |-> <<0, 0, 0, 0>>,
      port |-> 0, read2_ok |-> FALSE],
     [has_arg |-> TRUE, read_ok |-> TRUE, sin_family |-> 10, ip |-> <<0, 0, 0, 0>>,
      port |-> 443, read2_ok |-> TRUE]}
      \cup {[has_arg |-> TRUE, read_ok |-> TRUE, sin_family |-> 2, ip |-> ip,
             port |-> p, read2_ok |-> r2] :
               ip \in PeerAddrs, p \in PeerPorts, r2 \in BOOLEAN}

\* The struct sockaddr_in in memory.
sockaddr_in(sa) ==
    [has_arg |-> sa.has_arg,
     arg |-> [read_ok |-> sa.read_ok, sin_family |-> sa.sin_family,
              sin_port |-> htons(sa.port),
              s_addr |-> htonl(sa.ip[1] * 16777216 + sa.ip[2] * 65536
                                 + sa.ip[3] * 256 + sa.ip[4]),
              read2_ok |-> sa.read2_ok]]

ConnectRets == {-115, 0}

ConnectInvocation(kind, t, m, rc, sa, h) ==
    [kind |-> kind, tid |-> Tid(t), rc |-> rc, sa |-> sa,
     had_start |-> Has(m.start_times, get_key(Pid(t), Tid(t))),
     e_ok |-> h.e_ok, ring_ok |-> h.ring_ok]

InConnect == <<"tcp_v4_connect">>

InitConnect ==
    /\ maps = EmptyMaps
    /\ now = 0
    /\ calls = [t \in Threads |-> <<>>]
    /\ workload = {}
    /\ last = ConnectInvocation("none", 1, EmptyMaps, 0,
                                 CHOOSE sa \in Sockaddrs : ~sa.has_arg, AllOk)
    /\ pool_stats = [t \in Threads |-> NoPoolStats]
    /\ scratch = NoScratch

ConnectEnter(t) ==
    /\ calls[t] = <<>>
    /\ calls' = [calls EXCEPT ![t] = InConnect]
    /\ maps' = kprobe_tcp_connect(Drain(maps), Ctx(t, now, 0, NoArg, AllOk))
    /\ last' = [last EXCEPT !.kind = "connect_enter", !.tid = Tid(t)]
    /\ UNCHANGED <<now, workload, pool_stats, scratch>>

ConnectReturn(t) ==
    /\ calls[t] = InConnect
    /\ calls' = [calls EXCEPT ![t] = <<>>]
    /\ \E sa \in Sockaddrs, rc \in ConnectRets, h \in HelperOutcomes :
         /\ maps' = kretprobe_tcp_connect(Drain(maps),
                        Ctx(t, now, rc, sockaddr_in(sa), h))
         /\ last' = ConnectInvocation("connect_return", t, maps, rc, sa, h)
    /\ UNCHANGED <<now, workload, pool_stats, scratch>>

ConnectTick ==
    /\ now < MaxConnectTicks * TickNs
    /\ now' = now + TickNs
    /\ UNCHANGED <<maps, calls, workload, last, pool_stats, scratch>>

NextConnect ==
    \/ \E t \in Threads : ConnectEnter(t)
    \/ \E t \in Threads : ConnectReturn(t)
    \/ ConnectTick

SpecConnect == InitConnect /\ [][NextConnect]_vars

----------------------------------------------------------------------------
\* The paired probes under a clock that is not monotonic: between two probes
\* bpf_ktime_get_ns may be read on another CPU and step back.

ClockValues == {k * TickNs : k \in 0 .. MaxClockTicks}

\* What the exit probe finds: the start time stored under the thread's key.
ClockInvocation(kind, t, f, m, ts, h) ==
    LET key == get_key(Pid(t), Tid(t)) IN
    [kind |-> kind, tid |-> Tid(t), f |-> f, ts |-> ts,
     had_start |-> Has(m.start_times, key),
     start |-> IF Has(m.start_times, key) THEN m.start_times[key] ELSE 0,
     e_ok |-> h.e_ok, ring_ok |-> h.ring_ok]

InitClock ==
    /\ maps = EmptyMaps
    /\ now \in ClockValues
    /\ calls = [t \in Threads |-> <<>>]
    /\ workload \in Workloads
    /\ last = ClockInvocation("none", 1, "", EmptyMaps, 0, AllOk)
    /\ pool_stats = [t \in Threads |-> NoPoolStats]
    /\ scratch = NoScratch

ClockEnter(t) ==
    /\ calls[t] = <<>>
    /\ \E f \in workload : \E a \in EntryArgs(f) :
         /\ maps' = EntryProbe(f, Drain(maps), Ctx(t, now, 0, a, AllOk))
         /\ calls' = [calls EXCEPT ![t] = <<f>>]
         /\ last' = ClockInvocation("entry", t, f, maps, now, AllOk)
    /\ UNCHANGED <<now, workload, pool_stats, scratch>>

ClockReturn(t) ==
    /\ calls[t] # <<>>
    /\ LET f == calls[t][1] IN
       \E rc \in Rets(f), a \in ExitArgs(f), h \in PoolHelperOutcomes :
         /\ maps' = ExitProbe(f, Drain(maps), Ctx(t, now, rc, a, h))
         /\ calls' = [calls EXCEPT ![t] = <<>>]
         /\ last' = ClockInvocation("exit", t, f, maps, now, h)
    /\ UNCHANGED <<now, workload, pool_stats, scratch>>

ClockStep ==
    /\ now' \in ClockValues \ {now}
    /\ UNCHANGED <<maps, calls, workload, last, pool_stats, scratch>>

NextClock ==
    \/ \E t \in Threads : ClockEnter(t)
    \/ \E t \in Threads : ClockReturn(t)
    \/ ClockStep

SpecClock == InitClock /\ [][NextClock]_vars

----------------------------------------------------------------------------
\* The paired probes when start_times holds the entries of calls that never
\* reached their exit probe: threads of other processes that were killed, or
\* whose exit probe was detached, inside an instrumented call.

\* n orphaned entries, of the main threads of processes 2 .. n + 1.
Orphans(n) == [k \in {get_key(p, 0) : p \in 2 .. n + 1} |-> 0]

OrphanCounts == {MAX_ENTRIES - 1, MAX_ENTRIES}

InitFull ==
    /\ \E n \in OrphanCounts : maps = [EmptyMaps EXCEPT !.start_times = Orphans(n)]
    /\ now = TickNs
    /\ calls = [t \in Threads |-> <<>>]
    /\ workload \in Workloads
    /\ last = [kind |-> "none", tid |-> 0, f |-> "", had_start |-> FALSE,
               latency |-> 0, e_ok |-> TRUE, ring_ok |-> TRUE]
    /\ pool_stats = [t \in Threads |-> NoPoolStats]
    /\ scratch = NoScratch

FullEnter(t) ==
    /\ calls[t] = <<>>
    /\ \E f \in workload : \E a \in EntryArgs(f) :
         /\ maps' = EntryProbe(f, Drain(maps), Ctx(t, now, 0, a, AllOk))
         /\ calls' = [calls EXCEPT ![t] = <<f>>]
         /\ last' = Invocation("entry", t, f, maps, now, AllOk)
    /\ UNCHANGED <<now, workload, pool_stats, scratch>>

FullReturn(t) ==
    /\ calls[t] # <<>>
    /\ LET f == calls[t][1] IN
       \E rc \in Rets(f), a \in ExitArgs(f), h \in PoolHelperOutcomes :
         /\ maps' = ExitProbe(f, Drain(maps), Ctx(t, now, rc, a, h))
         /\ calls' = [calls EXCEPT ![t] = <<>>]
         /\ last' = Invocation("exit", t, f, maps, now, h)
    /\ UNCHANGED <<now, workload, pool_stats, scratch>>

NextFull ==
    \/ \E t \in Threads : FullEnter(t)
    \/ \E t \in Threads : FullReturn(t)

SpecFull == InitFull /\ [][NextFull]_vars

----------------------------------------------------------------------------
\* The paired probes when the user-space consumer reads the ring buffer but
\* has not yet removed the stack traces of earlier events from stack_traces.

\* n stack traces of two frames, stored for earlier events.
UnreadTraces(n) == [k \in 1 .. n |-> 2]

UnreadCounts == {STACK_TRACES_MAX_ENTRIES - 1, STACK_TRACES_MAX_ENTRIES}

DrainEvents(m) == [m EXCEPT !.events = <<>>]

\* What one invocation finds: the keys stack_traces holds when the probe starts.
StacksInvocation(kind, t, f, m, h) ==
    [kind |-> kind, tid |-> Tid(t), f |-> f, traces |-> DOMAIN m.stack_traces,
     e_ok |-> h.e_ok, ring_ok |-> h.ring_ok]

InitStacks ==
    /\ \E n \in UnreadCounts :
         maps = [EmptyMaps EXCEPT !.stack_traces = UnreadTraces(n)]
    /\ now = TickNs
    /\ calls = [t \in Threads |-> <<>>]
    /\ workload \in Workloads
    /\ last = StacksInvocation("none", 1, "", EmptyMaps, AllOk)
    /\ pool_stats = [t \in Threads |-> NoPoolStats]
    /\ scratch = NoScratch

StacksEnter(t) ==
    /\ calls[t] = <<>>
    /\ \E f \in workload : \E a \in EntryArgs(f) :
         /\ maps' = EntryProbe(f, DrainEvents(maps), Ctx(t, now, 0, a, AllOk))
         /\ calls' = [calls EXCEPT ![t] = <<f>>]
         /\ last' = StacksInvocation("entry", t, f, maps, AllOk)
    /\ UNCHANGED <<now, workload, pool_stats, scratch>>

StacksReturn(t) ==
    /\ calls[t] # <<>>
    /\ LET f == calls[t][1] IN
       \E rc \in Rets(f), a \in ExitArgs(f), h \in HelperOutcomes :
         /\ maps' = ExitProbe(f, DrainEvents(maps), Ctx(t, now, rc, a, h))
         /\ calls' = [calls EXCEPT ![t] = <<>>]
         /\ last' = StacksInvocation("exit", t, f, maps, h)
    /\ UNCHANGED <<now, workload, pool_stats, scratch>>

NextStacks ==
    \/ \E t \in Threads : StacksEnter(t)
    \/ \E t \in Threads : StacksReturn(t)

SpecStacks == InitStacks /\ [][NextStacks]_vars

----------------------------------------------------------------------------
\* A librdkafka client: threads that create topic handles and produce, in a
\* process that may already hold handles created earlier. Each call in
\* progress is a frame with the argument its entry probe read.

\* n topic handles created earlier, at addresses that are not the next one.
KnownTopics(n) == [h \in {16 * k : k \in 1 .. n} |-> <<"o">>]

KnownTopicCounts == {0, KAFKA_MAX_ENTRIES - 1, KAFKA_MAX_ENTRIES}

KafkaFuncs == {"rd_kafka_topic_new", "rd_kafka_produce"}

\* The frame of a call of f with argument a: topic is the name that
\* kafka_topic_names holds for the rkt argument when the call is made.
KafkaFrame(f, a, m) ==
    [f |-> f, a |-> a,
     topic |-> IF f = "rd_kafka_produce" /\ Has(m.kafka_topic_names, a.arg.rkt)
               THEN m.kafka_topic_names[a.arg.rkt] ELSE <<>>]

\* The record of one invocation: the frame it belongs to, the value returned,
\* and kafka_topic_names as the probe found it.
KafkaInvocation(kind, t, fr, rc, m, h) ==
    [kind |-> kind, tid |-> Tid(t), f |-> fr.f, a |-> fr.a, topic |-> fr.topic,
     rc |-> rc, names |-> m.kafka_topic_names, e_ok |-> h.e_ok, ring_ok |-> h.ring_ok]

InitKafka ==
    /\ \E n \in KnownTopicCounts :
         maps = [EmptyMaps EXCEPT !.kafka_topic_names = KnownTopics(n)]
    /\ now = TickNs
    /\ calls = [t \in Threads |-> <<>>]
    /\ workload = KafkaFuncs
    /\ last = KafkaInvocation("none", 1, KafkaFrame("", NoArg, EmptyMaps), 0,
                              EmptyMaps, AllOk)
    /\ pool_stats = [t \in Threads |-> NoPoolStats]
    /\ scratch = NoScratch

\* Thread t calls a function of the library, or the function it is in sends
\* on its socket.
KafkaEnter(t) ==
    /\ \E f \in (IF calls[t] = <<>> THEN workload
                 ELSE IF Len(calls[t]) = 1 THEN Nested(calls[t][1].f) ELSE {}) :
         \E a \in EntryArgs(f) :
           /\ maps' = EntryProbe(f, Drain(maps), Ctx(t, now, 0, a, AllOk))
           /\ calls' = [calls EXCEPT ![t] = Append(@, KafkaFrame(f, a, maps))]
           /\ last' = KafkaInvocation("entry", t, KafkaFrame(f, a, maps), 0, maps, AllOk)
    /\ UNCHANGED <<now, workload, pool_stats, scratch>>

\* The innermost call of thread t returns.
KafkaReturn(t) ==
    /\ calls[t] # <<>>
    /\ LET fr == calls[t][Len(calls[t])] IN
       \E rc \in Rets(fr.f), a \in ExitArgs(fr.f), h \in PoolHelperOutcomes :
         /\ maps' = ExitProbe(fr.f, Drain(maps), Ctx(t, now, rc, a, h))
         /\ calls' = [calls EXCEPT ![t] = SubSeq(@, 1, Len(@) - 1)]
         /\ last' = KafkaInvocation("exit", t, fr, rc, maps, h)
    /\ UNCHANGED <<now, workload, pool_stats, scratch>>

NextKafka ==
    \/ \E t \in Threads : KafkaEnter(t)
    \/ \E t \in Threads : KafkaReturn(t)

SpecKafka == InitKafka /\ [][NextKafka]_vars

----------------------------------------------------------------------------
\* One evaluation of a cgroup, from its usage and limit to the alert, for
\* every utilization and every setting of the thresholds.

\* The thresholds <<warn, crit, emerg>>: unset, all written, or some of them.
AlertThresholds ==
    {<<0, 0, 0>>, <<50, 75, 90>>, <<80, 90, 95>>, <<0, 75, 0>>, <<60, 0, 0>>,
     <<0, 0, 85>>}

\* The u64 values a usage or a limit is drawn from: small ones, 950 of 1000,
\* the values around which usage * 100 leaves the u64 range, and the largest.
UtilInputs ==
    (0 .. 3) \cup {950, 1000, U64Max \div 100, (U64Max \div 100) + 1,
                  2 ^ (U64Bits - 1), (2 ^ (U64Bits - 1)) + 1, U64Max - 1, U64Max}

\* What is evaluated: a usage that is utilization percent of a limit of 100,
\* or a usage and a limit whose utilization calculate_utilization is to give.
AlertInputs ==
    [usage : 0 .. 100, limit : {100}, measured : {FALSE}]
        \cup [usage : UtilInputs, limit : UtilInputs, measured : {TRUE}]

InitAlert ==
    /\ \E th \in AlertThresholds :
         maps = [EmptyMaps EXCEPT !.alert_thresholds = th]
    /\ now = 0
    /\ calls = [t \in Threads |-> <<>>]
    /\ workload = {}
    /\ \E in \in AlertInputs, cg \in Cgroups,
          rt \in {RESOURCE_CPU, RESOURCE_MEMORY, RESOURCE_IO},
          h \in PoolHelperOutcomes :
         last = [kind |-> "input", cgroup_id |-> cg, resource_type |-> rt,
                 usage |-> in.usage, limit |-> in.limit, measured |-> in.measured,
                 utilization |-> 0, level |-> 0, h |-> h]
    /\ pool_stats = [t \in Threads |-> NoPoolStats]
    /\ scratch = NoScratch

RaiseAlert ==
    /\ last.kind = "input"
    /\ LET u == IF last.measured
                THEN calculate_utilization(last.usage, last.limit)
                ELSE last.usage
       IN /\ maps' = emit_resource_alert(maps, Ctx(1, now, 0, NoArg, last.h),
                                         last.cgroup_id, last.resource_type, u,
                                         last.limit, last.usage)
          /\ last' = [last EXCEPT !.kind = "alert", !.utilization = u,
                          !.level = check_alert_threshold(maps, u)]
    /\ UNCHANGED <<now, calls, workload, pool_stats, scratch>>

NextAlert == RaiseAlert

SpecAlert == InitAlert /\ [][NextAlert]_vars

----------------------------------------------------------------------------
\* calculate_utilization on pairs of u64 values.

InitUtil ==
    /\ maps = EmptyMaps
    /\ now = 0
    /\ calls = [t \in Threads |-> <<>>]
    /\ workload = {}
    /\ \E usage \in UtilInputs, limit \in UtilInputs :
         last = [kind |-> "input", usage |-> usage, limit |-> limit, result |-> 0]
    /\ pool_stats = [t \in Threads |-> NoPoolStats]
    /\ scratch = NoScratch

Calculate ==
    /\ last.kind = "input"
    /\ last' = [last EXCEPT !.kind = "result",
                    !.result = calculate_utilization(last.usage, last.limit)]
    /\ UNCHANGED <<maps, now, calls, workload, pool_stats, scratch>>

NextUtil == Calculate

SpecUtil == InitUtil /\ [][NextUtil]_vars

----------------------------------------------------------------------------
\* The scratch records under concurrency: kprobe___close_fd runs on every
\* CPU, thread c on CPU c, one memory access after the other.  CPUs are no
\* more than threads.

Fds == {3, 4}

InitScratch ==
    /\ maps = EmptyMaps
    /\ now = 0
    /\ calls = [t \in Threads |-> <<>>]
    /\ workload = {}
    /\ last = [kind |-> "none", cpu |-> 0, fd |-> 0, e |-> ZeroEvent,
               writers |-> {}, stack_by |-> 0]
    /\ pool_stats = [t \in Threads |-> NoPoolStats]
    /\ scratch = NoScratch

\* get_event_buf: the lookup of event_buf[0] and the memset of the record.
AcquireEventBuf(c) ==
    /\ scratch.pc[c].at = "idle"
    /\ \E fd \in Fds :
         scratch' = [scratch EXCEPT !.event_buf = ZeroEvent,
                                    !.wrote = [f \in Fields |-> c],
                                    !.pc[c] = [at |-> "acquired", fd |-> fd]]
    /\ UNCHANGED <<maps, now, calls, workload, last, pool_stats>>

\* e->timestamp = ...; e->pid = pid; ... e->target[0] = '\0';
FillEvent(c) ==
    /\ scratch.pc[c].at = "acquired"
    /\ scratch' =
         [scratch EXCEPT
            !.event_buf = [@ EXCEPT !.timestamp = now, !.pid = Pid(c),
                               !.type = "EVENT_CLOSE", !.latency_ns = 0,
                               !.error = 0, !.bytes = scratch.pc[c].fd,
                               !.tcp_state = 0, !.target = <<>>],
            !.wrote = [f \in Fields |->
                         IF f \in {"stack_key", "details"} THEN @[f] ELSE c],
            !.pc[c].at = "filled"]
    /\ UNCHANGED <<maps, now, calls, workload, last, pool_stats>>

\* capture_user_stack up to bpf_get_stack: the lookup of stack_buf[0],
\* trace->nr = 0 and the frames; without frames e->stack_key = 0.
GetStack(c) ==
    /\ scratch.pc[c].at = "filled"
    /\ \E sz \in {-14, 16, 24} :
         scratch' =
           IF sz <= 0
           THEN [scratch EXCEPT !.stack_buf = [nr |-> 0, by |-> c],
                                !.event_buf.stack_key = 0,
                                !.wrote["stack_key"] = c,
                                !.pc[c].at = "stacked"]
           ELSE [scratch EXCEPT
                    !.stack_buf = [nr |-> Min(sz \div 8, MAX_STACK_DEPTH), by |-> c],
                    !.pc[c].at = "framed"]
    /\ UNCHANGED <<maps, now, calls, workload, last, pool_stats>>

\* capture_user_stack from bpf_get_stack on: stack_traces[key] = *trace,
\* e->stack_key = key, with key built from e->timestamp.
PublishStack(c) ==
    /\ scratch.pc[c].at = "framed"
    /\ LET key == build_stack_key(Pid(c), Tid(c), scratch.event_buf.timestamp) IN
         /\ maps' = [maps EXCEPT !.stack_traces =
                        bpf_map_update_elem(@, key, scratch.stack_buf,
                                            STACK_TRACES_MAX_ENTRIES)]
         /\ scratch' = [scratch EXCEPT !.event_buf.stack_key = key,
                                       !.wrote["stack_key"] = c,
                                       !.pc[c].at = "stacked"]
    /\ UNCHANGED <<now, calls, workload, last, pool_stats>>

\* bpf_ringbuf_output(&events, e, sizeof(*e), 0): the record as it stands is
\* copied to the ring buffer.
SubmitEvent(c) ==
    /\ scratch.pc[c].at = "stacked"
    /\ maps' = [maps EXCEPT !.events = <<scratch.event_buf>>]
    /\ last' = [kind |-> "submit", cpu |-> c, fd |-> scratch.pc[c].fd,
                e |-> scratch.event_buf,
                writers |-> {scratch.wrote[f] : f \in Fields},
                stack_by |-> IF Has(maps.stack_traces, scratch.event_buf.stack_key)
                             THEN maps.stack_traces[scratch.event_buf.stack_key].by
                             ELSE c]
    /\ scratch' = [scratch EXCEPT !.pc[c] = [at |-> "idle", fd |-> 0]]
    /\ UNCHANGED <<now, calls, workload, pool_stats>>

NextScratch ==
    \/ \E c \in CPUs : AcquireEventBuf(c)
    \/ \E c \in CPUs : FillEvent(c)
    \/ \E c \in CPUs : GetStack(c)
    \/ \E c \in CPUs : PublishStack(c)
    \/ \E c \in CPUs : SubmitEvent(c)

SpecScratch == InitScratch /\ [][NextScratch]_vars

----------------------------------------------------------------------------
\* emit_pool_event under concurrency: threads of the three client libraries
\* run it on every CPU, thread c on CPU c, one step after the other, on the
\* one record of event_buf.

DbTypes == {DB_TYPE_SQLITE, DB_TYPE_POSTGRESQL, DB_TYPE_MYSQL}

\* The record emit_pool_event builds for an acquire of db_type on thread t.
PoolRecord(t, db_type) ==
    emit_pool_event(EmptyMaps, Ctx(t, now, 0, NoArg, AllOk), Pid(t),
                    "EVENT_POOL_ACQUIRE", 0, db_type).events[1]

InitShared ==
    /\ maps = EmptyMaps
    /\ now = 0
    /\ calls = [t \in Threads |-> <<>>]
    /\ workload = {}
    /\ last = [kind |-> "none", cpu |-> 0, db_type |-> 0, e |-> ZeroEvent]
    /\ pool_stats = [t \in Threads |-> NoPoolStats]
    /\ scratch = [event_buf |-> ZeroEvent,
                  pc |-> [c \in CPUs |-> [at |-> "idle", db_type |-> 0]]]

\* struct event *e = get_event_buf(): the lookup and the memset.
SharedGetEventBuf(c) ==
    /\ scratch.pc[c].at = "idle"
    /\ \E db_type \in DbTypes :
         scratch' = [scratch EXCEPT !.event_buf = ZeroEvent,
                                    !.pc[c] = [at |-> "acquired", db_type |-> db_type]]
    /\ UNCHANGED <<maps, now, calls, workload, last, pool_stats>>

\* e->timestamp = ...; e->stack_key = 0.
SharedFillHeader(c) ==
    /\ scratch.pc[c].at = "acquired"
    /\ LET r == PoolRecord(c, scratch.pc[c].db_type) IN
       scratch' = [scratch EXCEPT
                     !.event_buf = [@ EXCEPT !.timestamp = r.timestamp, !.pid = r.pid,
                                        !.type = r.type, !.latency_ns = r.latency_ns,
                                        !.error = 0, !.bytes = 0, !.tcp_state = 0,
                                        !.stack_key = 0],
                     !.pc[c].at = "header"]
    /\ UNCHANGED <<maps, now, calls, workload, last, pool_stats>>

\* bpf_probe_read_kernel_str(e->target, ..., pool_name); e->details[0] = '\0'.
SharedFillTarget(c) ==
    /\ scratch.pc[c].at = "header"
    /\ scratch' = [scratch EXCEPT
                     !.event_buf.target = PoolRecord(c, scratch.pc[c].db_type).target,
                     !.event_buf.details = <<>>,
                     !.pc[c].at = "filled"]
    /\ UNCHANGED <<maps, now, calls, workload, last, pool_stats>>

\* bpf_ringbuf_output(&events, e, sizeof(*e), 0).
SharedOutput(c) ==
    /\ scratch.pc[c].at = "filled"
    /\ maps' = [maps EXCEPT !.events = <<scratch.event_buf>>]
    /\ last' = [kind |-> "submit", cpu |-> c, db_type |-> scratch.pc[c].db_type,
                e |-> scratch.event_buf]
    /\ scratch' = [scratch EXCEPT !.pc[c] = [at |-> "idle", db_type |-> 0]]
    /\ UNCHANGED <<now, calls, workload, pool_stats>>

NextShared ==
    \/ \E c \in CPUs : SharedGetEventBuf(c)
    \/ \E c \in CPUs : SharedFillHeader(c)
    \/ \E c \in CPUs : SharedFillTarget(c)
    \/ \E c \in CPUs : SharedOutput(c)

SpecShared == InitShared /\ [][NextShared]_vars

----------------------------------------------------------------------------
\* The probes that loop, run one loop iteration at a time: the scan of
\* kretprobe_unix_stream_recvmsg, the scan and the copy of
\* kprobe_grpc_tcp_sendmsg and the truncation of uprobe_PQexec. scratch holds
\* the program counter, the loop variables, the number of iterations of the
\* loop in progress, and the value returned.

\* A PARAMS record with REQUEST_URI and a value without '/', one whose body
\* names no parameter the scan knows, and records the probe does not scan.
LoopFcgiInputs ==
    {fcgi_record(FCGI_PARAMS, FcgiRequestId, fcgi_nv_body(pairs)) :
        pairs \in FcgiParamLists}
      \cup {fcgi_record(FCGI_PARAMS, FcgiRequestId,
                        fcgi_nv(<<REQUEST_URI, <<120>>>>)),
            fcgi_record(FCGI_END_REQUEST, FcgiRequestId, <<0, 0, 0, 0, 0, 0, 0, 0>>),
            fcgi_record(FCGI_PARAMS, FcgiRequestId, <<>>),
            <<FCGI_VERSION_1>>}

\* "SELECT 1", "", and a statement of 130 letters.
LoopQueries ==
    {<<83, 69, 76, 69, 67, 84, 32, 49>>, <<>>, [k \in 1 .. MAX_STRING_LEN + 2 |-> 65]}

LoopInputs(prog) ==
    CASE prog = "fcgi" -> LoopFcgiInputs
      [] prog = "grpc" -> GrpcSent
      [] OTHER -> LoopQueries

LoopProgs == {"fcgi", "grpc", "PQexec"}

LoopState(prog, iov) ==
    [prog |-> prog, iov |-> iov, pc |-> "entry", i |-> 0, j |-> 0, p |-> 0,
     path_start |-> 0, found_uri |-> FALSE, found_method |-> FALSE,
     iterations |-> 0, ret |-> 0]

\* return v;
Returned(st, v) == [st EXCEPT !.pc = "returned", !.ret = v]

\* A variant of fcgi_outer_cond that scans as far as the inner loops may read.
fcgi_outer_cond_wide(i) == i < 2 * FCGI_PARAMS_SCAN_LEN

\* The condition of the outer loop of the FastCGI scan.
fcgi_outer_cond(i) == i + 14 < FCGI_PARAMS_SCAN_LEN - 3

LoopScanLen(iov) == Min(iov[5] * 256 + iov[6], FCGI_PARAMS_SCAN_LEN)

InitLoops ==
    /\ maps = EmptyMaps
    /\ now = 0
    /\ calls = [t \in Threads |-> <<>>]
    /\ workload = {}
    /\ last = [kind |-> "none"]
    /\ pool_stats = [t \in Threads |-> NoPoolStats]
    /\ \E prog \in LoopProgs : \E iov \in LoopInputs(prog) :
         scratch = LoopState(prog, iov)

\* kretprobe_unix_stream_recvmsg up to the scan.
FcgiScanEntry ==
    /\ scratch.prog = "fcgi" /\ scratch.pc = "entry"
    /\ \E e_ok \in BOOLEAN :
         LET hdr == read_msghdr_data(1, scratch.iov, FCGI_HEADER_LEN) IN
         scratch' =
           IF hdr = <<>> THEN Returned(scratch, 0)
           ELSE IF hdr[1] # FCGI_VERSION_1 THEN Returned(scratch, 0)
           ELSE IF hdr[2] # FCGI_PARAMS THEN Returned(scratch, 0)
           ELSE IF hdr[5] * 256 + hdr[6] = 0 THEN Returned(scratch, 0)
           ELSE IF ~e_ok THEN Returned(scratch, 0)
           ELSE [scratch EXCEPT !.pc = "outer", !.i = 0, !.iterations = 0]
    /\ UNCHANGED <<maps, now, calls, workload, last, pool_stats>>

\* One test of the outer loop and, when it holds, the body up to an inner loop.
FcgiScanOuter ==
    /\ scratch.prog = "fcgi" /\ scratch.pc = "outer"
    /\ LET i == scratch.i
           scan_len == LoopScanLen(scratch.iov)
       IN scratch' =
            IF ~fcgi_outer_cond(i) THEN [scratch EXCEPT !.pc = "after"]
            ELSE IF scratch.found_uri /\ scratch.found_method
            THEN [scratch EXCEPT !.pc = "after", !.iterations = @ + 1]
            ELSE IF /\ ~scratch.found_uri
                    /\ i + 11 < FCGI_PARAMS_SCAN_LEN
                    /\ fcgi_name_at(scratch.iov, scan_len, i, REQUEST_URI)
            THEN [scratch EXCEPT !.pc = "uri", !.j = i + 11, !.p = 0,
                                 !.iterations = @ + 1]
            ELSE IF /\ ~scratch.found_method
                    /\ i + 14 < FCGI_PARAMS_SCAN_LEN
                    /\ fcgi_name_at(scratch.iov, scan_len, i, REQUEST_METHOD)
            THEN [scratch EXCEPT !.pc = "method", !.j = i + 14, !.p = 0,
                                 !.iterations = @ + 1]
            ELSE [scratch EXCEPT !.i = i + 1, !.iterations = @ + 1]
    /\ UNCHANGED <<maps, now, calls, workload, last, pool_stats>>

\* One test of the loop that looks for the '/' of the URI; p counts its
\* iterations.
FcgiScanUri ==
    /\ scratch.prog = "fcgi" /\ scratch.pc = "uri"
    /\ LET j == scratch.j
           scan_len == LoopScanLen(scratch.iov)
       IN scratch' =
            IF ~(j + 1 < FCGI_PARAMS_SCAN_LEN)
            THEN [scratch EXCEPT !.pc = "outer", !.i = @ + 1]
            ELSE IF fcgi_params(scratch.iov, scan_len, j) = Slash
            THEN [scratch EXCEPT !.pc = "outer", !.i = @ + 1, !.p = @ + 1,
                                 !.found_uri = TRUE]
            ELSE [scratch EXCEPT !.j = j + 1, !.p = @ + 1]
    /\ UNCHANGED <<maps, now, calls, workload, last, pool_stats>>

\* One test of the loop that looks for the first letter of the method.
FcgiScanMethod ==
    /\ scratch.prog = "fcgi" /\ scratch.pc = "method"
    /\ LET j == scratch.j
           b == fcgi_params(scratch.iov, LoopScanLen(scratch.iov), j)
       IN scratch' =
            IF ~(j < FCGI_PARAMS_SCAN_LEN /\ j < scratch.i + 20)
            THEN [scratch EXCEPT !.pc = "outer", !.i = @ + 1]
            ELSE IF (b >= 65 /\ b <= 90) \/ (b >= 97 /\ b <= 122)
            THEN [scratch EXCEPT !.pc = "outer", !.i = @ + 1, !.p = @ + 1,
                                 !.found_method = TRUE]
            ELSE [scratch EXCEPT !.j = j + 1, !.p = @ + 1]
    /\ UNCHANGED <<maps, now, calls, workload, last, pool_stats>>

\* After the scan: nothing found, or the request is saved and emitted.
FcgiScanAfter ==
    /\ scratch.prog = "fcgi" /\ scratch.pc = "after"
    /\ scratch' = Returned(scratch, 0)
    /\ UNCHANGED <<maps, now, calls, workload, last, pool_stats>>

\* u8 buf[GRPC_INSPECT_LEN] = {} after the read of the first iovec.
LoopGrpcBuf(iov, i) ==
    IF i < BitAnd(Min(Len(iov), GRPC_INSPECT_LEN), GRPC_INSPECT_LEN - 1)
    THEN iov[i + 1] ELSE 0

\* kprobe_grpc_tcp_sendmsg up to the scan, on a send to the gRPC port.
GrpcScanEntry ==
    /\ scratch.prog = "grpc" /\ scratch.pc = "entry"
    /\ LET iov == scratch.iov IN
       scratch' =
         IF Len(iov) < HTTP2_FRAME_HDR THEN Returned(scratch, 0)
         ELSE IF LoopGrpcBuf(iov, 3) # HTTP2_HEADERS THEN Returned(scratch, 0)
         ELSE IF /\ LoopGrpcBuf(iov, 0) = 80 /\ LoopGrpcBuf(iov, 1) = 82
                 /\ LoopGrpcBuf(iov, 2) = 73
         THEN Returned(scratch, 0)
         ELSE [scratch EXCEPT !.pc = "scan", !.i = HTTP2_FRAME_HDR,
                              !.iterations = 0]
    /\ UNCHANGED <<maps, now, calls, workload, last, pool_stats>>

\* One test of the loop that looks for the '/' of the path.
GrpcScan ==
    /\ scratch.prog = "grpc" /\ scratch.pc = "scan"
    /\ LET i == scratch.i IN
       scratch' =
         IF ~(i < GRPC_INSPECT_LEN) THEN Returned(scratch, 0)
         ELSE IF LoopGrpcBuf(scratch.iov, i) = Slash
         THEN [scratch EXCEPT !.pc = "copy", !.path_start = i, !.p = 0,
                              !.iterations = 0]
         ELSE [scratch EXCEPT !.i = i + 1, !.iterations = @ + 1]
    /\ UNCHANGED <<maps, now, calls, workload, last, pool_stats>>

\* One test of the loop that copies the path.
GrpcCopy ==
    /\ scratch.prog = "grpc" /\ scratch.pc = "copy"
    /\ LET i == scratch.i
           c == LoopGrpcBuf(scratch.iov, i)
       IN scratch' =
         IF ~(i < GRPC_INSPECT_LEN /\ scratch.p < MAX_STRING_LEN - 1)
         THEN Returned(scratch, 0)
         ELSE IF c < 32 \/ c = 58 \/ c = 32
         THEN Returned([scratch EXCEPT !.iterations = @ + 1], 0)
         ELSE [scratch EXCEPT !.i = i + 1, !.p = @ + 1, !.iterations = @ + 1]
    /\ UNCHANGED <<maps, now, calls, workload, last, pool_stats>>

\* char buf[MAX_STRING_LEN] = {} after bpf_probe_read_user_str of the query.
LoopQueryBuf(query, i) ==
    IF i < Len(bpf_probe_read_str(query, MAX_STRING_LEN))
    THEN query[i + 1] ELSE 0

\* uprobe_PQexec up to the truncation; the query pointer may be NULL.
VerbEntry ==
    /\ scratch.prog = "PQexec" /\ scratch.pc = "entry"
    /\ \E has_query \in BOOLEAN :
         scratch' = IF has_query
                    THEN [scratch EXCEPT !.pc = "truncate", !.i = 0, !.iterations = 0]
                    ELSE Returned(scratch, 0)
    /\ UNCHANGED <<maps, now, calls, workload, last, pool_stats>>

\* One test of the loop that cuts the query at its first whitespace or NUL.
VerbTruncate ==
    /\ scratch.prog = "PQexec" /\ scratch.pc = "truncate"
    /\ LET i == scratch.i
           b == LoopQueryBuf(scratch.iov, i)
       IN scratch' =
         IF ~(i < MAX_STRING_LEN) THEN Returned(scratch, 0)
         ELSE IF b = 32 \/ b = 10 \/ b = 9 \/ b = 0
         THEN Returned([scratch EXCEPT !.iterations = @ + 1], 0)
         ELSE [scratch EXCEPT !.i = i + 1, !.iterations = @ + 1]
    /\ UNCHANGED <<maps, now, calls, workload, last, pool_stats>>

NextLoops ==
    \/ FcgiScanEntry
    \/ FcgiScanOuter
    \/ FcgiScanUri
    \/ FcgiScanMethod
    \/ FcgiScanAfter
    \/ GrpcScanEntry
    \/ GrpcScan
    \/ GrpcCopy
    \/ VerbEntry
    \/ VerbTruncate

\* A probe runs to completion: every step of a program that has not returned
\* is taken.
SpecLoops == InitLoops /\ [][NextLoops]_vars /\ WF_vars(NextLoops)

----------------------------------------------------------------------------
\* A FastCGI application whose threads each serve several multiplexed
\* requests: the PARAMS record of request r on thread t asks for the URI
\* "/tr", and an END_REQUEST record closes one request.

FcgiRequestIds == 1 .. MaxFcgiRequestId

\* "/tr" in decimal digits
FcgiUriOf(t, r) == <<Slash, 48 + t, 48 + r>>

FcgiIdsInvocation(kind, t, r, h) ==
    [kind |-> kind, tid |-> Tid(t), request_id |-> r,
     e_ok |-> h.e_ok, ring_ok |-> h.ring_ok]

InitFcgiIds ==
    /\ maps = EmptyMaps
    /\ now = 0
    /\ calls = [t \in Threads |-> <<>>]
    /\ workload = {}
    /\ last = FcgiIdsInvocation("none", 1, 0, AllOk)
    /\ pool_stats = [t \in Threads |-> NoPoolStats]
    /\ scratch = NoScratch

FcgiIdsRecvEnter(t) ==
    /\ calls[t] = <<>>
    /\ calls' = [calls EXCEPT ![t] = InRecvmsg]
    /\ maps' = kprobe_unix_stream_recvmsg(Drain(maps),
                   Ctx(t, now, 0, Arg([msg |-> 1, iov |-> <<>>]), AllOk))
    /\ last' = FcgiIdsInvocation("recv_enter", t, 0, AllOk)
    /\ UNCHANGED <<now, workload, pool_stats, scratch>>

\* recvmsg returns with the PARAMS record of request r in the buffer.
FcgiIdsRecvReturn(t) ==
    /\ calls[t] = InRecvmsg
    /\ calls' = [calls EXCEPT ![t] = <<>>]
    /\ \E r \in FcgiRequestIds, h \in PoolHelperOutcomes :
         LET iov == fcgi_record(FCGI_PARAMS, r,
                                fcgi_nv(<<REQUEST_URI, FcgiUriOf(t, r)>>))
         IN /\ maps' = kretprobe_unix_stream_recvmsg(Drain(maps),
                           Ctx(t, now, Len(iov), Arg([msg |-> 1, iov |-> iov]), h))
            /\ last' = FcgiIdsInvocation("recv_return", t, r, h)
    /\ UNCHANGED <<now, workload, pool_stats, scratch>>

\* Thread t sends the END_REQUEST record of request r.
FcgiIdsSend(t) ==
    /\ \E r \in FcgiRequestIds, h \in PoolHelperOutcomes :
         LET iov == fcgi_record(FCGI_END_REQUEST, r, <<0, 0, 0, 0, 0, 0, 0, 0>>)
         IN /\ maps' = kprobe_unix_stream_sendmsg(Drain(maps),
                           Ctx(t, now, 0, Arg([msg |-> 1, iov |-> iov]), h))
            /\ last' = FcgiIdsInvocation("send", t, r, h)
    /\ UNCHANGED <<now, calls, workload, pool_stats, scratch>>

NextFcgiIds ==
    \/ \E t \in Threads : FcgiIdsRecvEnter(t)
    \/ \E t \in Threads : FcgiIdsRecvReturn(t)
    \/ \E t \in Threads : FcgiIdsSend(t)

SpecFcgiIds == InitFcgiIds /\ [][NextFcgiIds]_vars

----------------------------------------------------------------------------
\* Stack traces that wait for the consumer: each thread opens one file while
\* the clock advances a nanosecond at a time; the events and the traces stay
\* where the probes put them.  `last.nrs` is the number of frames captured
\* for each event of the ring buffer, in order.

StackSizes == {16, 24}

InitStackKeys ==
    /\ maps = EmptyMaps
    /\ now = 0
    /\ calls = [t \in Threads |-> <<>>]
    /\ workload = {"do_sys_openat2"}
    /\ last = [kind |-> "none", tid |-> 0, nrs |-> <<>>, done |-> {}]
    /\ pool_stats = [t \in Threads |-> NoPoolStats]
    /\ scratch = NoScratch

StackKeysTick ==
    /\ now < MaxStackNs
    /\ now' = now + 1
    /\ UNCHANGED <<maps, calls, workload, last, pool_stats, scratch>>

StackKeysEnter(t) ==
    /\ calls[t] = <<>>
    /\ t \notin last.done
    /\ \E f \in workload : \E a \in EntryArgs(f) :
         /\ maps' = EntryProbe(f, maps, Ctx(t, now, 0, a, AllOk))
         /\ calls' = [calls EXCEPT ![t] = <<f>>]
    /\ last' = [last EXCEPT !.kind = "entry", !.tid = Tid(t)]
    /\ UNCHANGED <<now, workload, pool_stats, scratch>>

StackKeysReturn(t) ==
    /\ calls[t] # <<>>
    /\ LET f == calls[t][1] IN
       \E rc \in Rets(f), a \in ExitArgs(f), sz \in StackSizes :
         LET m2 == ExitProbe(f, maps,
                             Ctx(t, now, rc, a, [AllOk EXCEPT !.stack_sz = sz]))
         IN /\ maps' = m2
            /\ last' = [kind |-> "exit", tid |-> Tid(t),
                        nrs |-> IF Len(m2.events) > Len(maps.events)
                                THEN Append(last.nrs, Min(sz \div 8, MAX_STACK_DEPTH))
                                ELSE last.nrs,
                        done |-> last.done \cup {t}]
    /\ calls' = [calls EXCEPT ![t] = <<>>]
    /\ UNCHANGED <<now, workload, pool_stats, scratch>>

NextStackKeys ==
    \/ StackKeysTick
    \/ \E t \in Threads : StackKeysEnter(t)
    \/ \E t \in Threads : StackKeysReturn(t)

SpecStackKeys == InitStackKeys /\ [][NextStackKeys]_vars

----------------------------------------------------------------------------
\* A librdkafka consumer: threads that poll for messages of one known topic
\* (handle 16); a poll may read from the broker's socket before it returns.

PollFuncs == {"rd_kafka_consumer_poll"}

\* The rd_kafka_message_t a poll returns: err, rkt and len.
PollMessages ==
    {[err |-> er, rkt |-> rk, len |-> ln] :
        er \in {0, -191}, rk \in {0, 16, 24}, ln \in {5, MAX_BYTES_THRESHOLD}}

PollInvocation(kind, t, f, rc, msg, m, h) ==
    [kind |-> kind, tid |-> Tid(t), f |-> f, rc |-> rc, msg |-> msg,
     had_start |-> Has(m.start_times, get_key(Pid(t), Tid(t))),
     names |-> m.kafka_topic_names,
     e_ok |-> h.e_ok, ring_ok |-> h.ring_ok]

NoMessage == [err |-> 0, rkt |-> 0, len |-> 0]

InitPoll ==
    /\ maps = [EmptyMaps EXCEPT !.kafka_topic_names = KnownTopics(1)]
    /\ now = 0
    /\ calls = [t \in Threads |-> <<>>]
    /\ workload = PollFuncs
    /\ last = PollInvocation("none", 1, "", 0, NoMessage, EmptyMaps, AllOk)
    /\ pool_stats = [t \in Threads |-> NoPoolStats]
    /\ scratch = NoScratch

PollEnter(t) ==
    /\ \E f \in (IF calls[t] = <<>> THEN workload
                 ELSE IF Len(calls[t]) = 1 THEN Nested(calls[t][1]) ELSE {}) :
         /\ maps' = EntryProbe(f, Drain(maps), Ctx(t, now, 0, NoArg, AllOk))
         /\ calls' = [calls EXCEPT ![t] = Append(@, f)]
         /\ last' = PollInvocation("entry", t, f, 0, NoMessage, maps, AllOk)
    /\ UNCHANGED <<now, workload, pool_stats, scratch>>

\* The socket read inside a poll returns.
PollRecvReturn(t) ==
    /\ Len(calls[t]) = 2
    /\ LET f == calls[t][2] IN
       \E rc \in Rets(f) :
         /\ maps' = ExitProbe(f, Drain(maps), Ctx(t, now, rc, NoArg, AllOk))
         /\ last' = PollInvocation("exit", t, f, rc, NoMessage, maps, AllOk)
    /\ calls' = [calls EXCEPT ![t] = SubSeq(@, 1, 1)]
    /\ UNCHANGED <<now, workload, pool_stats, scratch>>

\* The poll returns NULL or a pointer to a message.
PollReturn(t) ==
    /\ Len(calls[t]) = 1
    /\ LET f == calls[t][1] IN
       \E rc \in Rets(f), msg \in PollMessages, h \in PoolHelperOutcomes :
         /\ maps' = ExitProbe(f, Drain(maps), Ctx(t, now, rc, Arg(msg), h))
         /\ last' = PollInvocation("exit", t, f, rc, msg, maps, h)
    /\ calls' = [calls EXCEPT ![t] = <<>>]
    /\ UNCHANGED <<now, workload, pool_stats, scratch>>

PollTick ==
    /\ now < MaxTicks * TickNs
    /\ now' = now + TickNs
    /\ UNCHANGED <<maps, calls, workload, last, pool_stats, scratch>>

NextPoll ==
    \/ \E t \in Threads : PollEnter(t)
    \/ \E t \in Threads : PollRecvReturn(t)
    \/ \E t \in Threads : PollReturn(t)
    \/ PollTick

SpecPoll == InitPoll /\ [][NextPoll]_vars

----------------------------------------------------------------------------
\* A process that links the three client libraries: any thread may open,
\* query and close connections of any of them.  `last.owner[t]` is the
\* library whose acquire last took the pool of thread t from idle to in use,
\* `last.busy[t]` the library of the latest acquire that found it in use.

MixAcquireFuncs == {"sqlite3_prepare_v2", "PQconnectStart", "mysql_real_connect"}

MixQueryFuncs == {"PQexec_pool", "mysql_real_query_pool"}

MixDbType(f) ==
    CASE f = "sqlite3_prepare_v2" -> DB_TYPE_SQLITE
      [] f = "PQconnectStart" -> DB_TYPE_POSTGRESQL
      [] f = "mysql_real_connect" -> DB_TYPE_MYSQL
      [] OTHER -> 0

MixInvocation(t, f, owner, busy) ==
    [tid |-> Tid(t), f |-> f, owner |-> owner, busy |-> busy]

InitMix ==
    /\ maps = EmptyMaps
    /\ now = 0
    /\ calls = [t \in Threads |-> <<>>]
    /\ workload = MixAcquireFuncs \cup MixQueryFuncs \cup ReleaseFuncs
    /\ last = MixInvocation(1, "",
                            [t \in Threads |-> 0], [t \in Threads |-> 0])
    /\ pool_stats = [t \in Threads |-> NoPoolStats]
    /\ scratch = NoScratch

\* Thread t enters an acquiring function of one of the libraries.
MixAcquire(t) ==
    /\ \E f \in MixAcquireFuncs, h \in PoolHelperOutcomes :
         LET key == get_pool_key(Pid(t), Tid(t))
             m2 == PoolEntryProbe(f, Drain(maps), Ctx(t, now, 0, NoArg, h))
             flipped == ~InUse(maps, key) /\ InUse(m2, key)
         IN /\ maps' = m2
            /\ last' = MixInvocation(t, f,
                          IF flipped THEN [last.owner EXCEPT ![t] = MixDbType(f)]
                          ELSE last.owner,
                          [last.busy EXCEPT ![t] = IF flipped THEN 0 ELSE MixDbType(f)])
    /\ UNCHANGED <<now, calls, workload, pool_stats, scratch>>

\* Thread t enters a querying function.
MixQuery(t) ==
    /\ \E f \in MixQueryFuncs, h \in PoolHelperOutcomes :
         /\ maps' = PoolEntryProbe(f, Drain(maps), Ctx(t, now, 0, NoArg, h))
         /\ last' = MixInvocation(t, f, last.owner, last.busy)
    /\ UNCHANGED <<now, calls, workload, pool_stats, scratch>>

\* Thread t returns from a releasing function.
MixRelease(t) ==
    /\ \E f \in ReleaseFuncs, h \in PoolHelperOutcomes :
         /\ maps' = PoolExitProbe(f, Drain(maps), Ctx(t, now, 0, NoArg, h))
         /\ last' = MixInvocation(t, f, last.owner, last.busy)
    /\ UNCHANGED <<now, calls, workload, pool_stats, scratch>>

\* The clock advances by more than the exhaustion threshold.
MixTick ==
    /\ now < PoolTickNs
    /\ now' = now + 2 * PoolTickNs
    /\ UNCHANGED <<maps, calls, workload, last, pool_stats, scratch>>

NextMix ==
    \/ \E t \in Threads : MixAcquire(t)
    \/ \E t \in Threads : MixQuery(t)
    \/ \E t \in Threads : MixRelease(t)
    \/ MixTick

SpecMix == InitMix /\ [][NextMix]_vars

----------------------------------------------------------------------------
\* The correlation protocol.

Key(t) == get_key(Pid(t), Tid(t))

\* The tables keyed by the calling thread's key.
PerThreadTables ==
    {"start_times", "dns_targets", "socket_conns", "lock_targets", "db_queries",
     "syscall_paths", "file_paths", "redis_cmds", "memcached_ops", "proto_bytes",
     "kafka_topic_tmp"}

\* The functions whose exit probe looks up start_times[K] and emits an event.
PairedProducers == (UNION Workloads) \ {"rd_kafka_topic_new"}

\* The functions whose exit probe drops latencies under MIN_LATENCY_NS.
Thresholded == {"vfs_read", "vfs_write", "vfs_fsync", "do_futex", "pthread_mutex_lock"}

\* The latest invocation was an exit probe that found start_times[K] and went
\* on to ask for the event record.
AskedForEventBuf ==
    /\ last.kind = "exit"
    /\ last.f \in PairedProducers
    /\ last.had_start
    /\ (last.f \in Thresholded => last.latency >= MIN_LATENCY_NS)

NoEntriesFor(t, f) ==
    /\ ~Has(maps.start_times, Key(t))
    /\ \A tb \in SideTables(f) : ~Has(maps[tb], Key(t))

\* C1: when an exit probe finds start_times[K] but get_event_buf returns
\* NULL, it emits nothing and leaves neither start_times[K] nor any side-table
\* entry its entry probe wrote for K.
C1_LostEventPath ==
    (AskedForEventBuf /\ ~last.e_ok)
        => (maps.events = <<>> /\ NoEntriesFor(last.tid, last.f))

\* The lost-event path of kretprobe_tcp_sendmsg has run and start_times[K]
\* is still there.
C1_Leak ==
    /\ AskedForEventBuf /\ ~last.e_ok
    /\ last.f = "tcp_sendmsg"
    /\ maps.events = <<>>
    /\ Has(maps.start_times, Key(last.tid))

\* Everything but the ring buffer.
Tables(m) == [m EXCEPT !.events = <<>>]

\* C2: from every table state in which an exit probe can run, the run in
\* which the ring buffer rejects the record leaves the tables exactly as the
\* run in which it accepts the record does.
C2_RingFullSameTables ==
    \A t \in Threads :
        calls[t] # <<>> =>
            LET f == calls[t][Len(calls[t])] IN
            \A rc \in Rets(f), a \in ExitArgs(f), h \in HelperOutcomes :
                Tables(ExitProbe(f, Drain(maps),
                                 Ctx(t, now, rc, a, [h EXCEPT !.ring_ok = FALSE])))
                  = Tables(ExitProbe(f, Drain(maps),
                                     Ctx(t, now, rc, a, [h EXCEPT !.ring_ok = TRUE])))

\* kretprobe_vfs_read built its record, the ring buffer rejected it, and the
\* entries of K are gone all the same.
C2_RingFullCleaned ==
    /\ AskedForEventBuf /\ last.e_ok /\ ~last.ring_ok
    /\ last.f = "vfs_read"
    /\ maps.events = <<>>
    /\ NoEntriesFor(last.tid, last.f)

\* C3: an exit probe of VFS read/write/fsync, futex or pthread_mutex_lock that
\* measures a latency under 1 ms emits nothing and leaves no entry for K in
\* start_times or in the side table written at entry.
C3_BelowThreshold ==
    (/\ last.kind = "exit"
     /\ last.f \in Thresholded
     /\ last.had_start
     /\ last.latency < MIN_LATENCY_NS)
        => (maps.events = <<>> /\ NoEntriesFor(last.tid, last.f))

\* kretprobe_vfs_read dropped a fast read and file_paths[K] is still there.
C3_Leak ==
    /\ last.kind = "exit" /\ last.f = "vfs_read"
    /\ last.had_start /\ last.latency < MIN_LATENCY_NS
    /\ maps.events = <<>>
    /\ ~Has(maps.start_times, Key(last.tid))
    /\ Has(maps.file_paths, Key(last.tid))

\* C4: once every call that was entered has returned, so that every entry
\* probe has been followed by its exit probe, no entry remains in start_times
\* or in a per-thread side table.
C4_QuiescentTablesEmpty ==
    (\A t \in Threads : calls[t] = <<>>)
        => \A tb \in PerThreadTables : maps[tb] = EmptyMap

\* getaddrinfo has returned after a nested udp_sendmsg on the same thread
\* consumed start_times[K]; all calls have returned and dns_targets[K] remains.
C4_OverlapLeak ==
    /\ \A t \in Threads : calls[t] = <<>>
    /\ last.kind = "exit" /\ last.f = "getaddrinfo" /\ ~last.had_start
    /\ Has(maps.dns_targets, Key(last.tid))

\* C5: an exit probe that finds no start_times[K] emits nothing and still
\* deletes the side-table entries for K.
C5_OrphanCleansSideTables ==
    (last.kind = "exit" /\ last.f \in PairedProducers /\ ~last.had_start)
        => (maps.events = <<>> /\ NoEntriesFor(last.tid, last.f))

\* redis_emit ran without start_times[K] and redis_cmds[K] is still there.
C5_OrphanLeak ==
    /\ last.kind = "exit" /\ last.f = "redisCommand" /\ ~last.had_start
    /\ maps.events = <<>>
    /\ Has(maps.redis_cmds, Key(last.tid))

\* C7: for every sequence of pool probes on a key, the number of
\* EVENT_POOL_ACQUIRE records emitted for the key equals the number of in_use
\* 0 -> 1 transitions of its pool state (creation included), also when the
\* scratch record or the ring buffer is unavailable.
C7_AcquiresEqualTransitions ==
    \A t \in Threads : pool_stats[t].acquires = pool_stats[t].transitions

\* C7, amended: every transition builds one EVENT_POOL_ACQUIRE record and
\* nothing else does; the record is lost when the scratch record or the ring
\* buffer is unavailable, so the records emitted are the transitions less
\* the losses, and as many as the transitions when nothing was lost.
C7_AcquiresPlusDropsEqualTransitions ==
    \A t \in Threads :
        pool_stats[t].acquires + pool_stats[t].drops = pool_stats[t].transitions

\* A key has been acquired twice, once announced and once with the record lost.
C7_OneLost ==
    \E t \in Threads :
        /\ pool_stats[t].transitions = 2
        /\ pool_stats[t].acquires = 1
        /\ pool_stats[t].drops = 1

\* C8: with the scratch record and the ring buffer available, an exhaustion
\* probe emits EVENT_POOL_EXHAUSTED with latency_ns = wait exactly when
\* pool_acquire_times[K] exists and the wait is at least 10 ms.
C8_ExhaustedIffTenMs ==
    (/\ last.kind = "entry"
     /\ last.f \in ExhaustionFuncs
     /\ last.e_ok /\ last.ring_ok)
        => ((\E i \in 1 .. Len(maps.events) :
                /\ maps.events[i].type = "EVENT_POOL_EXHAUSTED"
                /\ maps.events[i].latency_ns = last.wait)
            <=> (last.had_acquire /\ last.wait >= 10 * NS_PER_MS))

\* An exhaustion probe ran 10 ms to the nanosecond after the acquire, with
\* the scratch record and the ring buffer available, and emitted nothing.
C8_SilentAtTenMs ==
    /\ last.kind = "entry" /\ last.f \in ExhaustionFuncs
    /\ last.e_ok /\ last.ring_ok
    /\ last.had_acquire /\ last.wait = 10 * NS_PER_MS
    /\ maps.events = <<>>

\* C9: after emit_resource_alert has evaluated a cgroup with utilization u,
\* cgroup_alerts[cgroup_id] is check_alert_threshold(u) when that level is
\* above 0 and is absent when it is 0, whether or not the event record could
\* be built.
C9_AlertsReflectLevel ==
    last.kind = "alert"
        => IF last.level > 0
           THEN /\ Has(maps.cgroup_alerts, last.cgroup_id)
                /\ maps.cgroup_alerts[last.cgroup_id] = last.level
           ELSE ~Has(maps.cgroup_alerts, last.cgroup_id)

\* A cgroup back at level 0 was evaluated without the scratch record and is
\* still listed at the emergency level.
C9_StaleAlert ==
    /\ last.kind = "alert" /\ ~last.e_ok /\ last.level = 0
    /\ Has(maps.cgroup_alerts, last.cgroup_id)
    /\ maps.cgroup_alerts[last.cgroup_id] = 3

\* C10: for all u64 usage and limit, calculate_utilization returns 0 when
\* limit is 0 or ~0ULL and otherwise min(100, (usage * 100) / limit) with the
\* product taken in the integers, not modulo 2^w.
C10_UtilizationExact ==
    last.kind = "result"
        => last.result =
             (IF last.limit = 0 \/ last.limit = U64Max THEN 0
              ELSE Min(100, (last.usage * 100) \div last.limit))

\* A usage of half the u64 range against a limit just above it is reported
\* as 0 percent.
C10_WrappedToZero ==
    /\ last.kind = "result" /\ last.result = 0
    /\ last.usage = 2 ^ (U64Bits - 1) /\ last.limit = last.usage + 1

\* C6: from get_event_buf to bpf_ringbuf_output no invocation on another CPU
\* zeroes or writes the record of event_buf or of stack_buf: every field of a
\* submitted record, and the stack trace it names, was last written by the
\* invocation that submits it.
C6_SubmittedFieldsOwn ==
    last.kind = "submit"
        => /\ last.writers = {last.cpu}
           /\ last.stack_by = last.cpu

\* A close of one descriptor was submitted with the descriptor that the
\* invocation on the other CPU wrote into the record.
C6_ForeignFd ==
    /\ last.kind = "submit"
    /\ last.e.type = "EVENT_CLOSE"
    /\ last.e.bytes # last.fd
    /\ last.cpu \notin last.writers

\* The thresholds in force: what the loader wrote, or the default where a
\* slot is unset.
Warn == IF maps.alert_thresholds[1] = 0 THEN 80 ELSE maps.alert_thresholds[1]

Crit == IF maps.alert_thresholds[2] = 0 THEN 90 ELSE maps.alert_thresholds[2]

Emerg == IF maps.alert_thresholds[3] = 0 THEN 95 ELSE maps.alert_thresholds[3]

\* The events of type ty that the latest invocation put into the ring buffer.
Emitted(ty) ==
    {maps.events[i] : i \in {j \in 1 .. Len(maps.events) : maps.events[j].type = ty}}

\* C11: the alert level of utilization u is 3 if u >= emerg, else 2 if
\* u >= crit, else 1 if u >= warn, else 0, where each threshold is the slot of
\* alert_thresholds if set and the default 80/90/95 if the slot reads 0.
C11_AlertLevel ==
    last.kind = "alert"
        => last.level = (IF last.utilization >= Emerg THEN 3
                         ELSE IF last.utilization >= Crit THEN 2
                         ELSE IF last.utilization >= Warn THEN 1
                         ELSE 0)

\* With only the critical threshold written (75), a utilization of 80 is
\* critical and one of 79 would be too, while the default warning still holds.
C11_PartlyConfigured ==
    /\ last.kind = "alert" /\ last.h.e_ok
    /\ maps.alert_thresholds = <<0, 75, 0>>
    /\ last.utilization = 80 /\ last.level = 2
    /\ maps.cgroup_alerts[last.cgroup_id] = 2

\* C12: every EVENT_RESOURCE_LIMIT record whose utilization comes from
\* calculate_utilization has 0 <= error <= 100.
C12_ErrorIsPercent ==
    (last.kind = "alert" /\ last.measured)
        => \A e \in Emitted("EVENT_RESOURCE_LIMIT") : e.error >= 0 /\ e.error <= 100

\* A usage above its limit was measured and reported as 100 percent.
C12_OverLimit ==
    /\ last.kind = "alert" /\ last.measured
    /\ last.usage > last.limit /\ last.limit > 0
    /\ \E e \in Emitted("EVENT_RESOURCE_LIMIT") : e.error = 100

\* The decimal digits of n, without leading zeros.
RECURSIVE Decimal(_)
Decimal(n) == IF n < 10 THEN <<Digit(n)>> ELSE Decimal(n \div 10) \o <<Digit(n % 10)>>

ResourceName(rt) ==
    IF rt = RESOURCE_CPU THEN <<"C", "P", "U">>
    ELSE IF rt = RESOURCE_MEMORY THEN <<"M", "E", "M">>
    ELSE <<"I", "O">>

\* C13: for resource_type in {CPU, MEM, IO} and utilization in 0..100 the
\* EVENT_RESOURCE_LIMIT emitted has error = utilization, bytes = usage,
\* tcp_state = resource_type and details = "{CPU|MEM|IO}:{pct}%" with pct in
\* decimal without leading zeros; usage 950 of limit 1000 under thresholds
\* 80/90/95 gives details "CPU:95%" and cgroup_alerts[id] = 3.
C13_ResourceEvent ==
    (last.kind = "alert" /\ last.utilization \in 0 .. 100)
        => /\ \A e \in Emitted("EVENT_RESOURCE_LIMIT") :
                /\ e.error = last.utilization
                /\ e.bytes = last.usage
                /\ e.tcp_state = last.resource_type
                /\ e.details = ResourceName(last.resource_type) \o <<":">>
                                   \o Decimal(last.utilization) \o <<"%">>
           /\ (last.h.e_ok /\ last.h.ring_ok)
                  => Cardinality(Emitted("EVENT_RESOURCE_LIMIT")) = 1
           /\ (/\ last.measured /\ last.usage = 950 /\ last.limit = 1000
               /\ last.resource_type = RESOURCE_CPU /\ last.h.e_ok /\ last.h.ring_ok
               /\ <<Warn, Crit, Emerg>> = <<80, 90, 95>>)
                  => /\ \A e \in Emitted("EVENT_RESOURCE_LIMIT") :
                          e.details = <<"C", "P", "U", ":", "9", "5", "%">>
                     /\ Has(maps.cgroup_alerts, last.cgroup_id)
                     /\ maps.cgroup_alerts[last.cgroup_id] = 3

\* Usage 950 of 1000 was measured for a CPU cgroup under the default
\* thresholds and reported as "CPU:95%" at the emergency level.
C13_Cpu95 ==
    /\ last.kind = "alert" /\ last.measured
    /\ last.usage = 950 /\ last.limit = 1000
    /\ maps.alert_thresholds = <<0, 0, 0>>
    /\ \E e \in Emitted("EVENT_RESOURCE_LIMIT") :
          /\ e.details = <<"C", "P", "U", ":", "9", "5", "%">>
          /\ e.error = 95 /\ e.bytes = 950 /\ e.tcp_state = 0
    /\ maps.cgroup_alerts[last.cgroup_id] = 3

\* C14: when the task that leaves the CPU has an entry start_times[pid<<32],
\* EVENT_SCHED_SWITCH is emitted (scratch record and ring buffer available)
\* exactly when the block duration is at least 1 ms, with latency_ns equal to
\* the duration, and the entry is deleted either way.
C14_SwitchIffOneMs ==
    (last.kind = "switch" /\ last.had_start)
        => /\ (last.e_ok /\ last.ring_ok)
                 => ((\E e \in Emitted("EVENT_SCHED_SWITCH") :
                         e.latency_ns = last.block_time /\ e.pid = last.prev_pid)
                     <=> last.block_time >= MIN_LATENCY_NS)
           /\ ~Has(maps.start_times, get_key(last.prev_pid, 0))

\* A task left the CPU exactly 1 ms after it got it, the scratch record and
\* the ring buffer were available, and nothing was emitted.
C14_SilentAtOneMs ==
    /\ last.kind = "switch" /\ last.had_start
    /\ last.e_ok /\ last.ring_ok
    /\ last.block_time = MIN_LATENCY_NS
    /\ maps.events = <<>>

\* C15: after every sched_switch invocation to a task next_pid, on every
\* control path, start_times[next_pid<<32] is the time of the switch.
C15_NextStamped ==
    (last.kind = "switch" /\ last.next_pid > 0)
        => /\ Has(maps.start_times, get_key(last.next_pid, 0))
           /\ maps.start_times[get_key(last.next_pid, 0)] = last.ts

\* A task that had run for more than 1 ms left the CPU while the scratch
\* record was unavailable, and the task that got the CPU has no entry.
C15_NextNotStamped ==
    /\ last.kind = "switch" /\ last.next_pid > 0
    /\ last.had_start /\ last.block_time > MIN_LATENCY_NS /\ ~last.e_ok
    /\ ~Has(maps.start_times, get_key(last.next_pid, 0))
    /\ ~Has(maps.start_times, get_key(last.prev_pid, 0))

\* The records of one type the latest invocation put into the ring buffer.
EmittedAt(ty) == {i \in DOMAIN maps.events : maps.events[i].type = ty}

\* C16: every FastCGI RESPONSE event has latency_ns = timestamp - start_ns of
\* the request saved under the same key, never negative, and carries that
\* request's uri and method; the END_REQUEST probe deletes the saved request,
\* so it emits at most one RESPONSE for it, and an END_REQUEST with no saved
\* request emits nothing.
C16_ResponseOfSavedRequest ==
    last.kind = "send"
        => /\ \A e \in Emitted("EVENT_FASTCGI_RESPONSE") :
                 /\ last.had_req
                 /\ e.latency_ns = e.timestamp - last.req.start_ns
                 /\ e.latency_ns >= 0
                 /\ e.target = last.req.uri
                 /\ e.details = last.req.method
           /\ Cardinality(EmittedAt("EVENT_FASTCGI_RESPONSE")) <= 1
           /\ (Len(last.iov) >= FCGI_HEADER_LEN + 8 /\ last.iov[2] = FCGI_END_REQUEST)
                 => ~Has(maps.fastcgi_reqs, last.req_key)
           /\ ~last.had_req => maps.events = <<>>

\* An END_REQUEST found the request saved one tick earlier from a PARAMS
\* record with REQUEST_URI=/index.php: one RESPONSE with the elapsed time and
\* the saved uri, and the request is gone.
C16_ResponseAfterRequest ==
    /\ last.kind = "send" /\ last.had_req
    /\ last.req.uri = <<47, 105, 110, 100, 101, 120, 46, 112, 104, 112>>
    /\ ~Has(maps.fastcgi_reqs, last.req_key)
    /\ \E e \in Emitted("EVENT_FASTCGI_RESPONSE") :
          /\ e.latency_ns = FcgiTickNs
          /\ e.target = last.req.uri /\ e.details = <<>>

\* C17: for every PARAMS record holding REQUEST_URI=/p and REQUEST_METHOD=M
\* the emitted EVENT_FASTCGI_REQUEST has target exactly "/p" and details
\* exactly "M", whatever follows the values in the record.
C17_TargetIsUri ==
    last.kind = "recv_return"
        => \A u \in FcgiUris, mt \in FcgiMethods :
              (\E i, j \in DOMAIN last.pairs :
                   /\ last.pairs[i] = <<REQUEST_URI, u>>
                   /\ last.pairs[j] = <<REQUEST_METHOD, mt>>)
                 => \A e \in Emitted("EVENT_FASTCGI_REQUEST") :
                       e.target = u /\ e.details = mt

\* REQUEST_URI=/p followed by REQUEST_METHOD=GET: the target is "/p", the
\* next pair's two length bytes, its name and its value.
C17_TargetRunsOn ==
    /\ last.kind = "recv_return"
    /\ last.pairs = <<<<REQUEST_URI, <<47, 112>>>>, <<REQUEST_METHOD, <<71, 69, 84>>>>>>
    /\ \E e \in Emitted("EVENT_FASTCGI_REQUEST") :
          /\ e.target = <<47, 112, 14, 3>> \o REQUEST_METHOD \o <<71, 69, 84>>
          /\ e.details = <<71, 69, 84>>

\* C18: when grpc_methods[K] is set at tcp_sendmsg exit, the exit probe emits
\* EVENT_TCP_SEND followed by an EVENT_GRPC_METHOD whose target is the stored
\* method, and deletes grpc_methods[K].
C18_GrpcMethodEmitted ==
    (last.kind = "send_return" /\ last.had_method /\ last.had_start
        /\ last.e_ok /\ last.ring_ok)
        => /\ Len(maps.events) = 2
           /\ maps.events[1].type = "EVENT_TCP_SEND"
           /\ maps.events[2].type = "EVENT_GRPC_METHOD"
           /\ maps.events[2].target = last.method
           /\ ~Has(maps.grpc_methods, get_key(1, last.tid))

\* tcp_sendmsg returned with a method stored for the thread: the only record
\* is the EVENT_TCP_SEND, and the method is still stored.
C18_MethodLeftBehind ==
    /\ last.kind = "send_return" /\ last.had_method /\ last.had_start
    /\ last.e_ok /\ last.ring_ok
    /\ last.method = GrpcPath
    /\ Len(maps.events) = 1
    /\ maps.events[1].type = "EVENT_TCP_SEND"
    /\ Has(maps.grpc_methods, get_key(1, last.tid))
    /\ maps.grpc_methods[get_key(1, last.tid)] = GrpcPath

\* The path of a frame as the claim defines it: among the first
\* min(iov_len, 50) bytes, those from the first '/' at index 9 or later up to
\* the first control byte, ':' or space.
PathWithin50(iov) ==
    LET n == Min(Len(iov), GRPC_INSPECT_LEN)
        slashes == {i \in HTTP2_FRAME_HDR + 1 .. n : iov[i] = Slash}
    IN IF slashes = {} THEN <<>>
       ELSE LET from == CHOOSE i \in slashes : \A j \in slashes : i <= j
                stops == {i \in from .. n : iov[i] < 32 \/ iov[i] = 58 \/ iov[i] = 32}
                to == IF stops = {} THEN n + 1
                      ELSE CHOOSE i \in stops : \A j \in stops : i <= j
            IN SubSeq(iov, from, to - 1)

\* C19: for every send to the gRPC port whose first iovec, of any length of
\* 9 or more, holds a HEADERS frame that does not start with "PRI" and has a
\* path within its first 50 bytes, the entry probe stores that path in
\* grpc_methods[K].
C19_PathStored ==
    (/\ last.kind = "send_enter" /\ last.dport = GRPC_DEFAULT_PORT
     /\ Len(last.iov) >= HTTP2_FRAME_HDR
     /\ last.iov[4] = HTTP2_HEADERS
     /\ SubSeq(last.iov, 1, 3) # <<80, 82, 73>>
     /\ PathWithin50(last.iov) # <<>>)
        => /\ Has(maps.grpc_methods, get_key(1, last.tid))
           /\ maps.grpc_methods[get_key(1, last.tid)] = PathWithin50(last.iov)

\* A HEADERS frame of 23 bytes with "/svc/Hello" at bytes 13..22: the probe
\* reads 23 & 49 = 17 bytes and stores "/svc".
C19_PathCutShort ==
    /\ last.kind = "send_enter" /\ last.dport = GRPC_DEFAULT_PORT
    /\ last.iov = http2_frame(HTTP2_HEADERS, HpackPath)
    /\ PathWithin50(last.iov) = GrpcPath
    /\ Has(maps.grpc_methods, get_key(1, last.tid))
    /\ maps.grpc_methods[get_key(1, last.tid)] = <<47, 115, 118, 99>>

\* n in decimal, zero-padded to w digits.
RECURSIVE ZeroPadded(_, _)
ZeroPadded(n, w) ==
    IF w = 0 THEN <<>> ELSE ZeroPadded(n \div 10, w - 1) \o <<Digit(n % 10)>>

\* "a.b.c.d:p" with every octet padded to 3 digits and the port to 5.
DottedQuadPort(ip, p) ==
    ZeroPadded(ip[1], 3) \o <<".">> \o ZeroPadded(ip[2], 3) \o <<".">>
        \o ZeroPadded(ip[3], 3) \o <<".">> \o ZeroPadded(ip[4], 3) \o <<":">>
        \o ZeroPadded(p, 5)

\* C20: for every IPv4 sockaddr {AF_INET, htons(p), htonl(a.b.c.d)} captured
\* at tcp_v4_connect exit, exactly one EVENT_CONNECT is emitted, its target is
\* "a.b.c.d:p" with the octets zero-padded to 3 digits and the port to 5, and
\* its error is the call's return code.
C20_ConnectTarget ==
    (/\ last.kind = "connect_return" /\ last.had_start
     /\ last.e_ok /\ last.ring_ok
     /\ last.sa.has_arg /\ last.sa.read_ok /\ last.sa.sin_family = 2)
        => /\ Len(maps.events) = 1
           /\ maps.events[1].type = "EVENT_CONNECT"
           /\ maps.events[1].target = DottedQuadPort(last.sa.ip, last.sa.port)
           /\ maps.events[1].error = last.rc

\* A connect to 10.0.0.1:443 whose sockaddr the exit probe copied: the read
\* of s_addr from the probe's own copy fails and the target is empty.
C20_TargetEmpty ==
    /\ last.kind = "connect_return" /\ last.had_start
    /\ last.e_ok /\ last.ring_ok
    /\ last.sa.has_arg /\ last.sa.read_ok /\ last.sa.sin_family = 2
    /\ last.sa.ip = <<10, 0, 0, 1>> /\ last.sa.port = 443
    /\ ~last.sa.read2_ok
    /\ Len(maps.events) = 1
    /\ maps.events[1].type = "EVENT_CONNECT"
    /\ maps.events[1].target = <<>>
    /\ maps.events[1].error = last.rc

\* The event types whose bytes field is the length of an I/O.
IoTypes ==
    {"EVENT_READ", "EVENT_WRITE", "EVENT_TCP_SEND", "EVENT_TCP_RECV",
     "EVENT_UDP_SEND", "EVENT_UDP_RECV", "EVENT_HTTP_RESP",
     "EVENT_KAFKA_PRODUCE", "EVENT_KAFKA_FETCH", "EVENT_MEMCACHED_CMD"}

\* C21: every emitted event whose bytes field is an I/O length has
\* bytes < 10 * 1024 * 1024; a count of 10 MiB or more is recorded as 0.
C21_BytesBelowTenMiB ==
    \A i \in DOMAIN maps.events :
        maps.events[i].type \in IoTypes
            => maps.events[i].bytes < MAX_BYTES_THRESHOLD

\* memcached_set of a 20 MiB value returned: the event carries the length.
C21_MemcachedSetTwentyMiB ==
    /\ last.kind = "exit" /\ last.f = "memcached_set"
    /\ \E i \in DOMAIN maps.events :
          /\ maps.events[i].type = "EVENT_MEMCACHED_CMD"
          /\ maps.events[i].bytes = 2 * MAX_BYTES_THRESHOLD

\* C22: every event emitted by an exit probe that found start_times[K] has
\* latency_ns = max(now - start, 0): it is 0 when now <= start and never a
\* wrapped-around difference.
C22_LatencyClamped ==
    (last.kind = "exit" /\ last.had_start)
        => \A i \in DOMAIN maps.events :
              maps.events[i].latency_ns =
                  (IF last.ts > last.start THEN last.ts - last.start ELSE 0)

\* The clock stepped back between entry and exit, and the event emitted at
\* exit has latency 0.
C22_ClockSteppedBack ==
    /\ last.kind = "exit" /\ last.had_start
    /\ last.ts < last.start
    /\ maps.events # <<>>
    /\ \A i \in DOMAIN maps.events : maps.events[i].latency_ns = 0

\* C23: every correlation table is bounded and an insertion into a full
\* table discards the oldest entry, so orphaned entries never prevent a later
\* entry probe from recording its own key in start_times.
C23_EntryRecordsOwnKey ==
    /\ Cardinality(DOMAIN maps.start_times) <= MAX_ENTRIES
    /\ (last.kind = "entry" /\ last.f \in {"tcp_sendmsg", "tcp_recvmsg"})
          => /\ Has(maps.start_times, get_key(1, last.tid))
             /\ maps.start_times[get_key(1, last.tid)] = now

\* start_times is full of orphaned entries: the entry probe of tcp_sendmsg
\* ran, no entry was discarded and the thread's key is not in the table.
C23_FullTableRejects ==
    /\ last.kind = "entry" /\ last.f = "tcp_sendmsg"
    /\ DOMAIN maps.start_times = DOMAIN Orphans(MAX_ENTRIES)
    /\ ~Has(maps.start_times, get_key(1, last.tid))

\* C24: stack_key is non-zero iff a user-stack capture was stored: for every
\* emitted event a non-zero stack_key is a key of stack_traces at the moment
\* of emission, also when stack_traces is full, and a probe that stored a
\* capture does not emit an event with stack_key = 0.
C24_StackKeyIffStored ==
    \A i \in DOMAIN maps.events :
        /\ maps.events[i].stack_key # 0
              => Has(maps.stack_traces, maps.events[i].stack_key)
        /\ maps.events[i].stack_key = 0
              => DOMAIN maps.stack_traces = last.traces

\* stack_traces is full: the exit probe captured a stack, the update of
\* stack_traces failed, and the event carries the key of the missing entry.
C24_KeyOfNoTrace ==
    /\ last.kind = "exit"
    /\ Cardinality(last.traces) = STACK_TRACES_MAX_ENTRIES
    /\ DOMAIN maps.stack_traces = last.traces
    /\ \E i \in DOMAIN maps.events :
          /\ maps.events[i].stack_key # 0
          /\ ~Has(maps.stack_traces, maps.events[i].stack_key)

\* The state of the pool tables for key.
PoolEntry(m, key) ==
    [in_use |-> IF Has(m.pool_states, key) THEN m.pool_states[key].in_use ELSE -1,
     connection_id |-> IF Has(m.pool_states, key)
                       THEN m.pool_states[key].connection_id ELSE -1,
     db_type |-> IF Has(m.pool_db_types, key) THEN m.pool_db_types[key] ELSE -1,
     acquire_time |-> IF Has(m.pool_acquire_times, key)
                      THEN m.pool_acquire_times[key] ELSE -1]

\* C25: a pool acquire that finds pool_states[K] with in_use = 1 refreshes
\* last_use_ns only: it emits no event and leaves in_use, connection_id,
\* pool_db_types[K] and pool_acquire_times[K] as they were.
C25_BusyAcquireKeepsTables ==
    [][\A t \in Threads :
         LET key == get_pool_key(Pid(t), Tid(t)) IN
         (/\ calls[t] = <<>>
          /\ calls'[t] # <<>>
          /\ calls'[t][1] \in AcquireFuncs
          /\ InUse(maps, key))
         => /\ maps'.events = <<>>
            /\ PoolEntry(maps', key) = PoolEntry(maps, key)
            /\ maps'.pool_states[key].last_use_ns = now
            /\ \A k \in DOMAIN maps.pool_states \ {key} :
                  maps'.pool_states[k] = maps.pool_states[k]]_vars

\* A thread whose connection was acquired at an earlier time has just run an
\* acquire probe again, with the scratch record and the ring buffer available.
C25_BusyAcquireRan ==
    /\ last.kind = "entry"
    /\ last.f \in AcquireFuncs
    /\ last.e_ok /\ last.ring_ok
    /\ maps.events = <<>>
    /\ \E t \in Threads :
          LET key == get_pool_key(Pid(t), Tid(t)) IN
          /\ last.tid = Tid(t)
          /\ InUse(maps, key)
          /\ maps.pool_states[key].last_use_ns = now
          /\ Has(maps.pool_acquire_times, key)
          /\ maps.pool_acquire_times[key] < now

PoolTables(m) == <<m.pool_states, m.pool_db_types, m.pool_acquire_times>>

\* The step is the return of a release call of thread t.
ReleaseStep(t) ==
    /\ calls[t] # <<>>
    /\ calls[t][1] \in ReleaseFuncs
    /\ calls'[t] = <<>>

OneRelease(m, t) ==
    /\ Len(m.events) = 1
    /\ m.events[1].type = "EVENT_POOL_RELEASE"
    /\ m.events[1].pid = Pid(t)

\* C26: a pool release that finds pool_states[K] with in_use = 1 flips it to
\* 0 and emits exactly one EVENT_POOL_RELEASE; with no state or in_use = 0 it
\* emits nothing and changes no table.
C26_ReleaseEmitsOnce ==
    [][\A t \in Threads :
         LET key == get_pool_key(Pid(t), Tid(t)) IN
         ReleaseStep(t)
         => IF InUse(maps, key)
            THEN /\ Has(maps'.pool_states, key)
                 /\ maps'.pool_states[key].in_use = 0
                 /\ OneRelease(maps', t)
            ELSE /\ maps'.events = <<>>
                 /\ PoolTables(maps') = PoolTables(maps)]_vars

\* C26 (amended): as above, but the EVENT_POOL_RELEASE of a flip is emitted
\* exactly when the scratch record and the ring buffer are available; the
\* flip happens either way, and only pool_states[K].in_use changes. Every
\* EVENT_POOL_RELEASE therefore starts from in_use = 1 and ends in in_use = 0,
\* so two of them for K have a 0 -> 1 transition between them.
C26_ReleaseEmitsOnceIfDelivered ==
    [][\A t \in Threads :
         LET key == get_pool_key(Pid(t), Tid(t)) IN
         ReleaseStep(t)
         => /\ IF InUse(maps, key)
               THEN /\ maps'.pool_states =
                          [maps.pool_states EXCEPT ![key].in_use = 0]
                    /\ IF last'.e_ok /\ last'.ring_ok
                       THEN OneRelease(maps', t)
                       ELSE maps'.events = <<>>
               ELSE /\ maps'.events = <<>>
                    /\ maps'.pool_states = maps.pool_states
            /\ maps'.pool_db_types = maps.pool_db_types
            /\ maps'.pool_acquire_times = maps.pool_acquire_times
            /\ maps'.events # <<>> => InUse(maps, key) /\ ~InUse(maps', key)]_vars

\* A release has just flipped the connection of its thread to idle and its
\* EVENT_POOL_RELEASE went out.
C26_Released ==
    /\ last.kind = "exit"
    /\ last.f \in ReleaseFuncs
    /\ \E t \in Threads :
          LET key == get_pool_key(Pid(t), Tid(t)) IN
          /\ last.tid = Tid(t)
          /\ OneRelease(maps, t)
          /\ Has(maps.pool_states, key)
          /\ maps.pool_states[key].in_use = 0

SqliteAcquireFuncs ==
    {"sqlite3_prepare_v2", "sqlite3_prepare", "sqlite3_prepare16",
     "sqlite3_prepare16_v2"}

SqlitePool == <<"s", "q", "l", "i", "t", "e", "-", "p", "o", "o", "l">>

ScenarioWaitNs == 2 * PoolTickNs

\* The step is the entry of thread t into f / the return of thread t from f.
EntersFunc(t, f) == calls[t] = <<>> /\ calls'[t] = <<f>>
ReturnsFrom(t, f) == calls[t] = <<f>> /\ calls'[t] = <<>>

OnePoolEvent(m, ty, latency) ==
    /\ Len(m.events) = 1
    /\ m.events[1].type = ty
    /\ m.events[1].latency_ns = latency
    /\ m.events[1].target = SqlitePool

\* C27: the SQLite scenario, run with the scratch record and the ring buffer
\* available. An acquire by a thread with no pool state emits
\* EVENT_POOL_ACQUIRE with target "sqlite-pool"; a sqlite3_step entry 20 ms
\* after the acquire emits EVENT_POOL_EXHAUSTED with latency_ns = the wait and
\* target "sqlite-pool"; the return of sqlite3_step clears
\* pool_acquire_times[K]; no probe emits EVENT_POOL_EXHAUSTED for K while
\* pool_acquire_times[K] is absent, and only an acquire sets it again.
C27_SqliteScenario ==
    [][\A t \in Threads :
         LET key == get_pool_key(Pid(t), Tid(t))
             delivered == last'.e_ok /\ last'.ring_ok
         IN
         /\ \A f \in SqliteAcquireFuncs :
               (EntersFunc(t, f) /\ ~Has(maps.pool_states, key) /\ delivered)
               => /\ OnePoolEvent(maps', "EVENT_POOL_ACQUIRE", 0)
                  /\ maps'.pool_acquire_times[key] = now
         /\ (/\ EntersFunc(t, "sqlite3_step")
             /\ Has(maps.pool_acquire_times, key)
             /\ now - maps.pool_acquire_times[key] = ScenarioWaitNs
             /\ delivered)
            => OnePoolEvent(maps', "EVENT_POOL_EXHAUSTED", ScenarioWaitNs)
         /\ ReturnsFrom(t, "sqlite3_step") => ~Has(maps'.pool_acquire_times, key)
         /\ (calls'[t] # calls[t] /\ ~Has(maps.pool_acquire_times, key))
            => /\ \A i \in DOMAIN maps'.events :
                     maps'.events[i].type # "EVENT_POOL_EXHAUSTED"
               /\ Has(maps'.pool_acquire_times, key)
                     => \E f \in AcquireFuncs : EntersFunc(t, f)]_vars

\* sqlite3_step has just been entered 20 ms after the acquire of its thread,
\* and its EVENT_POOL_EXHAUSTED went out.
C27_StepAfterTwentyMs ==
    /\ last.kind = "entry"
    /\ last.f = "sqlite3_step"
    /\ last.had_acquire
    /\ last.wait = ScenarioWaitNs
    /\ OnePoolEvent(maps, "EVENT_POOL_EXHAUSTED", ScenarioWaitNs)

LockFuncs == {"do_futex", "pthread_mutex_lock"}

\* C28: an exit probe of VFS read/write/fsync, futex or pthread_mutex_lock
\* that finds start_times[K], with the scratch record and the ring buffer
\* available, emits exactly one event when the latency is at least 1 ms and
\* none when it is less; a lock-contention event carries the measured latency
\* and the return value of the call as error, for every call in progress and
\* every return value.
C28_ThresholdedEmission ==
    \A t \in Threads :
        (/\ calls[t] # <<>>
         /\ calls[t][Len(calls[t])] \in Thresholded
         /\ Has(maps.start_times, Key(t)))
        => LET f == calls[t][Len(calls[t])]
               latency == now - maps.start_times[Key(t)]
           IN \A rc \in Rets(f), a \in ExitArgs(f), h \in HelperOutcomes :
                 (h.e_ok /\ h.ring_ok)
                 => LET out == ExitProbe(f, Drain(maps), Ctx(t, now, rc, a, h)).events
                    IN /\ latency < MIN_LATENCY_NS => out = <<>>
                       /\ latency >= MIN_LATENCY_NS => Len(out) = 1
                       /\ (latency >= MIN_LATENCY_NS /\ f \in LockFuncs)
                          => /\ out[1].type = "EVENT_LOCK_CONTENTION"
                             /\ out[1].latency_ns = latency
                             /\ out[1].error = rc

\* do_futex has just returned a non-zero value after exactly 1 ms and its
\* lock-contention event went out.
C28_ContendedAtOneMs ==
    /\ last.kind = "exit"
    /\ last.f = "do_futex"
    /\ last.had_start
    /\ last.latency = MIN_LATENCY_NS
    /\ last.e_ok /\ last.ring_ok
    /\ Len(maps.events) = 1
    /\ maps.events[1].type = "EVENT_LOCK_CONTENTION"
    /\ maps.events[1].latency_ns = MIN_LATENCY_NS
    /\ maps.events[1].error > 0

\* C29: after the return probe of rd_kafka_topic_new, kafka_topic_tmp[K] is
\* absent; if the handle returned is not null and a name was captured at
\* entry, kafka_topic_names[handle] is that name; a null return leaves
\* kafka_topic_names as it was.
C29_TopicNamed ==
    (last.kind = "exit" /\ last.f = "rd_kafka_topic_new")
    => /\ ~Has(maps.kafka_topic_tmp, get_key(1, last.tid))
       /\ (last.rc # 0 /\ last.a.has_arg)
          => /\ Has(maps.kafka_topic_names, last.rc)
             /\ maps.kafka_topic_names[last.rc] = last.a.arg
       /\ last.rc = 0 => maps.kafka_topic_names = last.names

\* kafka_topic_names holds KAFKA_MAX_ENTRIES handles: rd_kafka_topic_new
\* returned a new handle for a named topic and the handle has no entry.
C29_HandleWithoutName ==
    /\ last.kind = "exit"
    /\ last.f = "rd_kafka_topic_new"
    /\ last.rc # 0
    /\ last.a.has_arg
    /\ Cardinality(DOMAIN last.names) = KAFKA_MAX_ENTRIES
    /\ ~Has(maps.kafka_topic_names, last.rc)
    /\ ~Has(maps.kafka_topic_tmp, get_key(1, last.tid))

\* C30: the exit probe of rd_kafka_produce emits EVENT_KAFKA_PRODUCE with
\* details = the name kafka_topic_names held for the rkt handle at entry
\* (empty if unknown), bytes = the payload length passed at entry of the same
\* call and error = the return value, and leaves start_times[K], the topic
\* hand-off entry redis_cmds[K] and proto_bytes[K] absent.
C30_ProduceOfThisCall ==
    (last.kind = "exit" /\ last.f = "rd_kafka_produce" /\ last.e_ok /\ last.ring_ok)
    => /\ Len(maps.events) = 1
       /\ maps.events[1].type = "EVENT_KAFKA_PRODUCE"
       /\ maps.events[1].details = last.topic
       /\ maps.events[1].bytes = last.a.arg.len
       /\ maps.events[1].error = last.rc
       /\ \A tb \in {"start_times", "redis_cmds", "proto_bytes"} :
             ~Has(maps[tb], get_key(1, last.tid))

\* A produce call with an empty payload has just reported the byte count of
\* an earlier call of its thread.
C30_StaleByteCount ==
    /\ last.kind = "exit"
    /\ last.f = "rd_kafka_produce"
    /\ last.a.arg.len = 0
    /\ Len(maps.events) = 1
    /\ maps.events[1].type = "EVENT_KAFKA_PRODUCE"
    /\ maps.events[1].bytes > 0

\* C31: in every record submitted to the ring buffer, target and details end
\* within their 128 bytes and hold only what the emitting invocation copied
\* into them: a pool event carries the pool name of its own db_type and an
\* empty details.
C31_StringsOfThisInvocation ==
    last.kind = "submit"
        => /\ Len(last.e.target) < MAX_STRING_LEN
           /\ Len(last.e.details) < MAX_STRING_LEN
           /\ last.e.target = PoolRecord(last.cpu, last.db_type).target
           /\ last.e.details = <<>>

\* The pool event of an SQLite thread was submitted with the pool name that
\* the invocation of a PostgreSQL thread on the other CPU copied into the
\* record.
C31_ForeignPoolName ==
    /\ last.kind = "submit"
    /\ last.db_type = DB_TYPE_SQLITE
    /\ last.e.target = PoolRecord(last.cpu, DB_TYPE_POSTGRESQL).target

\* C32: every probe returns 0 on every path, and every invocation returns:
\* no loop of the FastCGI scan runs more than 200 iterations, no loop of the
\* HTTP/2 scan more than 50, and the string truncation no more than 128.
C32_ReturnsZeroWithinBounds ==
    /\ [](/\ scratch.pc = "returned" => scratch.ret = 0
          /\ scratch.prog = "fcgi"
                => scratch.iterations <= FCGI_PARAMS_SCAN_LEN
                     /\ scratch.p <= FCGI_PARAMS_SCAN_LEN
          /\ scratch.prog = "grpc" => scratch.iterations <= GRPC_INSPECT_LEN
          /\ scratch.prog = "PQexec" => scratch.iterations <= MAX_STRING_LEN)
    /\ <>(scratch.pc = "returned")

\* The scan of a PARAMS record that names no parameter ran its outer loop to
\* the end and returned.
C32_ScannedToTheEnd ==
    /\ scratch.prog = "fcgi"
    /\ scratch.pc = "returned"
    /\ ~fcgi_outer_cond(scratch.i)
    /\ scratch.iterations = scratch.i
    /\ scratch.iterations > MAX_STRING_LEN

\* The always-emit calls that run an instrumented send before they return,
\* and the type of their event.
OuterCalls == {"getaddrinfo", "PQexec", "http_request"}

OuterType(f) ==
    CASE f = "getaddrinfo" -> "EVENT_DNS"
      [] f = "PQexec" -> "EVENT_DB_QUERY"
      [] OTHER -> "EVENT_HTTP_REQ"

\* C33: an exit probe consumes only the start time its own entry probe
\* recorded: when a call B of the same thread runs entirely between the
\* entry and the exit probe of an always-emit call A, the exit probe of A
\* still emits the event of A (scratch record and ring buffer available).
C33_OuterCallEmits ==
    (last.kind = "exit" /\ last.f \in OuterCalls /\ last.e_ok /\ last.ring_ok)
    => /\ Len(maps.events) = 1
       /\ maps.events[1].type = OuterType(last.f)

\* getaddrinfo has returned after a udp_sendmsg of its thread came and went:
\* its exit probe found no start time and emitted nothing, and the hostname
\* captured at its entry is still in dns_targets.
C33_OuterCallSilent ==
    /\ last.kind = "exit"
    /\ last.f = "getaddrinfo"
    /\ ~last.had_start
    /\ last.e_ok /\ last.ring_ok
    /\ maps.events = <<>>
    /\ Has(maps.dns_targets, get_key(1, last.tid))

\* C34: two FastCGI requests that differ in thread or in requestId are saved
\* under different keys of fastcgi_reqs, so the END_REQUEST of one request
\* never reads or deletes the saved state of another: a RESPONSE emitted for
\* request r of thread t carries the URI of that request.
C34_ResponseOfOwnRequest ==
    /\ \A t1, t2 \in Threads : \A r1, r2 \in FcgiRequestIds :
          XOR(get_key(Pid(t1), Tid(t1)), r1) = XOR(get_key(Pid(t2), Tid(t2)), r2)
             => t1 = t2 /\ r1 = r2
    /\ last.kind = "send"
          => \A i \in EmittedAt("EVENT_FASTCGI_RESPONSE") :
                maps.events[i].target = FcgiUriOf(last.tid, last.request_id)

\* The END_REQUEST of request 2 on thread 1 was answered with the request
\* that thread 2 saved for its request 1, which is gone from fastcgi_reqs.
C34_ResponseOfOtherThread ==
    /\ last.kind = "send"
    /\ last.tid = 1 /\ last.request_id = 2
    /\ \E i \in EmittedAt("EVENT_FASTCGI_RESPONSE") :
          maps.events[i].target = FcgiUriOf(2, 1)
    /\ ~Has(maps.fastcgi_reqs, XOR(get_key(1, 2), 1))

\* C35: distinct emitted events that carry a non-zero stack_key carry distinct
\* keys, so a capture made by another invocation never overwrites the
\* stack_traces entry of an event the consumer has not yet read: the entry
\* under each unread event's key is still the trace captured for that event.
C35_StackKeysDistinct ==
    /\ \A i, j \in DOMAIN maps.events :
          i # j /\ maps.events[i].stack_key # 0
             => maps.events[i].stack_key # maps.events[j].stack_key
    /\ \A i \in DOMAIN maps.events :
          maps.events[i].stack_key # 0
             => /\ Has(maps.stack_traces, maps.events[i].stack_key)
                /\ maps.stack_traces[maps.events[i].stack_key] = last.nrs[i]

\* Two unread events of different threads carry the same non-zero key, and
\* the trace stored under it is no longer the one captured for the first.
C35_TraceOverwritten ==
    /\ Len(maps.events) = 2
    /\ maps.events[1].pid = maps.events[2].pid
    /\ maps.events[1].timestamp # maps.events[2].timestamp
    /\ maps.events[1].stack_key # 0
    /\ maps.events[1].stack_key = maps.events[2].stack_key
    /\ maps.stack_traces[maps.events[1].stack_key] # last.nrs[1]

\* C36: at the exit of rd_kafka_consumer_poll a null message pointer emits
\* no event; a non-null one emits exactly one EVENT_KAFKA_FETCH with
\* error = err, bytes = len (0 from 10 MiB on) and details = the name mapped
\* to rkt (empty if unmapped); in both cases start_times[K] is deleted and
\* kafka_topic_names is unchanged.
C36_PollExit ==
    last.kind = "exit" /\ last.f = "rd_kafka_consumer_poll"
       => /\ ~Has(maps.start_times, get_key(1, last.tid))
          /\ maps.kafka_topic_names = last.names
          /\ last.rc = 0 => maps.events = <<>>
          /\ last.rc # 0
                => /\ Len(maps.events) = 1
                   /\ maps.events[1].type = "EVENT_KAFKA_FETCH"
                   /\ maps.events[1].error = last.msg.err
                   /\ maps.events[1].bytes =
                         (IF last.msg.len >= MAX_BYTES_THRESHOLD THEN 0
                          ELSE last.msg.len)
                   /\ maps.events[1].details =
                         (IF Has(last.names, last.msg.rkt)
                          THEN last.names[last.msg.rkt] ELSE <<>>)

\* A poll that read from the socket returned a message of the known topic,
\* with every helper succeeding, and nothing was emitted.
C36_MessageWithoutEvent ==
    /\ last.kind = "exit" /\ last.f = "rd_kafka_consumer_poll"
    /\ last.rc # 0 /\ last.msg.rkt = 16
    /\ last.e_ok /\ last.ring_ok
    /\ ~last.had_start
    /\ maps.events = <<>>

\* C37: pool_db_types[K] is written only by an acquire that takes in_use from
\* 0 to 1, so it always holds the library of the latest such acquire, and
\* every EVENT_POOL_RELEASE and EVENT_POOL_EXHAUSTED for K carries the pool
\* name of that library, whatever library acquired while the pool was in use.
C37_NameOfLastTransition ==
    /\ \A t \in 1 .. NumThreads :
          LET key == get_pool_key(1, t) IN
          /\ Has(maps.pool_db_types, key) <=> last.owner[t] # 0
          /\ Has(maps.pool_db_types, key) => maps.pool_db_types[key] = last.owner[t]
    /\ \A i \in DOMAIN maps.events :
          maps.events[i].type \in {"EVENT_POOL_RELEASE", "EVENT_POOL_EXHAUSTED"}
             => /\ last.owner[last.tid] # 0
                /\ maps.events[i].target = PoolRecord(1, last.owner[last.tid]).target

\* PQfinish released a pool that sqlite opened and that PQconnectStart found
\* in use: the release is reported for the sqlite pool.
C37_ReleasedByOtherLibrary ==
    /\ last.f = "PQfinish"
    /\ last.owner[last.tid] = DB_TYPE_SQLITE
    /\ last.busy[last.tid] = DB_TYPE_POSTGRESQL
    /\ Len(maps.events) = 1
    /\ maps.events[1].type = "EVENT_POOL_RELEASE"
    /\ maps.events[1].target = PoolRecord(1, DB_TYPE_SQLITE).target

DbQueryFuncs == {"PQexec", "mysql_real_query"}

\* The verbs the entry probe can have stored for the queries of the workload.
DbVerbs(f) == {first_word(a.arg) : a \in {x \in EntryArgs(f) : x.has_arg}}

\* C38: PQexec and mysql_real_query entry store in db_queries[K] the SQL
\* string up to its first space, tab, newline or NUL, and the exit probe
\* emits EVENT_DB_QUERY with that verb as target and the driver's return
\* value as error (scratch record and ring buffer available), then deletes
\* db_queries[K] and start_times[K].
C38_QueryVerbReported ==
    /\ (last.kind = "entry" /\ last.f \in DbQueryFuncs
          /\ Has(maps.db_queries, get_key(1, last.tid)))
       => maps.db_queries[get_key(1, last.tid)] \in DbVerbs(last.f)
    /\ (last.kind = "exit" /\ last.f \in DbQueryFuncs)
       => /\ (last.e_ok /\ last.ring_ok)
                => /\ Len(maps.events) = 1
                   /\ maps.events[1].type = "EVENT_DB_QUERY"
                   /\ maps.events[1].target \in DbVerbs(last.f) \cup {<<>>}
                   /\ maps.events[1].error \in Rets(last.f)
          /\ ~Has(maps.db_queries, get_key(1, last.tid))
          /\ ~Has(maps.start_times, get_key(1, last.tid))

\* mysql_real_query has returned after a tcp_sendmsg of its thread came and
\* went: nothing was emitted and the verb is still in db_queries.
C38_QueryUnreported ==
    /\ last.kind = "exit"
    /\ last.f = "mysql_real_query"
    /\ ~last.had_start
    /\ last.e_ok /\ last.ring_ok
    /\ maps.events = <<>>
    /\ Has(maps.db_queries, get_key(1, last.tid))
    /\ maps.db_queries[get_key(1, last.tid)] = <<"S", "E", "L", "E", "C", "T">>

\* The command names the entry probe can have stored for the formats of the
\* workload.
RedisNames ==
    {redis_cmd_name(a.arg) : a \in {x \in EntryArgs("redisCommand") : x.has_arg}}

\* C39: redisCommand entry stores in redis_cmds[K] the format string up to
\* its first space, '%' or NUL; the exit probe emits EVENT_REDIS_CMD with
\* details = that command name and error = -1 or 0, and after the exit probe
\* redis_cmds[K] and start_times[K] are absent.
C39_RedisCommandReported ==
    /\ (last.kind = "entry" /\ last.f = "redisCommand"
          /\ Has(maps.redis_cmds, get_key(1, last.tid)))
       => maps.redis_cmds[get_key(1, last.tid)] \in RedisNames
    /\ (last.kind = "exit" /\ last.f = "redisCommand")
       => /\ \A i \in DOMAIN maps.events :
                /\ maps.events[i].type = "EVENT_REDIS_CMD"
                /\ maps.events[i].details \in RedisNames
                /\ maps.events[i].error \in {-1, 0}
          /\ Len(maps.events) <= 1
          /\ ~Has(maps.redis_cmds, get_key(1, last.tid))
          /\ ~Has(maps.start_times, get_key(1, last.tid))

\* redisCommand has returned after a tcp_sendmsg of its thread came and
\* went: nothing was emitted and the command name is still in redis_cmds.
C39_CommandLeftBehind ==
    /\ last.kind = "exit"
    /\ last.f = "redisCommand"
    /\ ~last.had_start
    /\ last.e_ok /\ last.ring_ok
    /\ maps.events = <<>>
    /\ Has(maps.redis_cmds, get_key(1, last.tid))
    /\ maps.redis_cmds[get_key(1, last.tid)] = <<"G", "E", "T">>

====
